---- MODULE Spec2Model ----
(***************************************************************************)
(* Model of the Codex "responses" translator of wuwu-logistics:            *)
(*   plugin-src/models/llm/llm.py      (CodexResponsesLargeLanguageModel)  *)
(*   plugin-src/models/common_openai.py (_CommonOpenAI)                    *)
(*                                                                         *)
(* One turn is modelled: _invoke issues the request (faults are mapped by  *)
(* _with_invoke_error_mapping), then either the one-shot decoder runs or   *)
(* the stream generator consumes one event per step.                       *)
(*                                                                         *)
(* Python str values that are concatenated or measured are sequences of    *)
(* one-character strings; identifiers that are only compared (call ids,    *)
(* function names, event types) are TLA+ strings.  Python None is NoCall   *)
(* for a call id and NoneInt for an optional integer.                      *)
(***************************************************************************)
EXTENDS Integers, Sequences, FiniteSets, TLC

\* ------------------------------------------------------------------ bounds
\* Number of events one stream delivers before it is exhausted.
MaxEvents == 4

\* ------------------------------------------------------- python primitives
NoCall == "<None>"
NoneInt == -1

\* str.strip() removes these (the model's alphabet holds two of them).
Whitespace == {" ", "\n"}

RECURSIVE LStrip(_)
LStrip(s) ==
    IF s = << >> THEN << >>
    ELSE IF Head(s) \in Whitespace THEN LStrip(Tail(s)) ELSE s

RECURSIVE RStrip(_)
RStrip(s) ==
    IF s = << >> THEN << >>
    ELSE IF s[Len(s)] \in Whitespace THEN RStrip(SubSeq(s, 1, Len(s) - 1)) ELSE s

\* full_text.strip()
Strip(s) == RStrip(LStrip(s))

\* sep.join(parts)
RECURSIVE Join(_, _)
Join(sep, parts) ==
    IF parts = << >> THEN << >>
    ELSE IF Len(parts) = 1 THEN parts[1]
    ELSE parts[1] \o sep \o Join(sep, Tail(parts))

\* [x for x in xs if x]  (keeps the truthy strings)
RECURSIVE NonEmptyOnly(_)
NonEmptyOnly(xs) ==
    IF xs = << >> THEN << >>
    ELSE IF Head(xs) = << >> THEN NonEmptyOnly(Tail(xs))
    ELSE << Head(xs) >> \o NonEmptyOnly(Tail(xs))

\* `a or b` on two optional integers (None and 0 are both falsy)
IntOr(a, b) == IF a # NoneInt /\ a # 0 THEN a ELSE b

\* `a or b` on strings
StrOr(a, b) == IF a # << >> THEN a ELSE b

\* `a or b` on identifiers
IdOr(a, b) == IF a # "" /\ a # NoCall THEN a ELSE b


\* ------------------------------------------------------------ input values
\* A prompt message: content is a str (kind "str"), a list of parts (kind
\* "list") or anything else (kind "other", e.g. None).  role names the class:
\* "system", "user", "assistant", "tool", or "other" for any other
\* PromptMessage.  tool_calls is read on an assistant message only and
\* tool_call_id on a tool message only.
Message(role, kind, t, ps, tcs, tcid) ==
    [role |-> role, kind |-> kind, text |-> t, parts |-> ps,
     tool_calls |-> tcs, tool_call_id |-> tcid]
StrMessage(role, t) == Message(role, "str", t, << >>, << >>, NoCall)
ListMessage(role, ps) == Message(role, "list", << >>, ps, << >>, NoCall)
OtherMessage(role) == Message(role, "other", << >>, << >>, << >>, NoCall)

\* A content part: ptype "text" is a TextPromptMessageContent, "text_like" an
\* object whose type is TEXT and that has a data attribute, "image" an
\* ImagePromptMessageContent (url "" and detail "" are None).
Part(ptype, d, url, detail) ==
    [ptype |-> ptype, data |-> d, url |-> url, detail |-> detail]
TextPart(d) == Part("text", d, << >>, "")
TextLikePart(d) == Part("text_like", d, << >>, "")
Image(url, d, detail) == Part("image", d, url, detail)
ImagePart == Image(<< >>, << >>, "")

\* A tool definition; has_description FALSE is description None; parameters is
\* "none" (None), "empty" ({}), "obj" ({"type": "object"}), "list" ([1]), or
\* a str: "json_obj" ('{"type": "object"}'), "json_list" ('[1]'), "json_num"
\* ('1') or "not_json" ('oops').
Tool(n, hasd, d, p) ==
    [name |-> n, has_description |-> hasd, description |-> d, parameters |-> p]

ToolF == Tool(<< "f" >>, TRUE, << "d", "o", "c" >>, "obj")
ToolG == Tool(<< "g", "g" >>, FALSE, << >>, "none")

MsgHi == StrMessage("user", << "h", "i" >>)
MsgSys == StrMessage("system", << "s" >>)
MsgParts ==
    ListMessage("user",
        << TextPart(<< "a" >>), ImagePart, TextPart(<< >>), TextLikePart(<< "b" >>) >>)
MsgImageOnly == ListMessage("user", << ImagePart >>)
MsgNone == OtherMessage("user")

\* The (prompt_messages, tools) pairs a turn is started with: no extractable
\* text but a tool, text and no tool, several messages and several tools.
TurnInputs ==
    { [prompt_messages |-> << MsgNone, MsgImageOnly >>, tools |-> << ToolF >>],
      [prompt_messages |-> << MsgHi >>, tools |-> << >>],
      [prompt_messages |-> << MsgSys, MsgParts >>, tools |-> << ToolF, ToolG >>] }

\* ----------------------------------------------------------- _extract_text
RECURSIVE PartTexts(_)
PartTexts(ps) ==
    IF ps = << >> THEN << >>
    ELSE IF Head(ps).ptype \in {"text", "text_like"}
         THEN << Head(ps).data >> \o PartTexts(Tail(ps))
         ELSE PartTexts(Tail(ps))

ExtractText(message) ==
    IF message.kind = "str" THEN message.text
    ELSE IF message.kind # "list" THEN << >>
    ELSE Join(<< "\n" >>, NonEmptyOnly(PartTexts(message.parts)))

\* ---------------------------------------------------------- get_num_tokens
\* len(encoding.encode(s)): the encoder is an external collaborator; it is
\* modelled as a byte-pair encoder that merges every two characters, so that
\* it is not additive over concatenation and maps "" to no token.
NumTokens(s) == (Len(s) + 1) \div 2

\* json.dumps(tool.parameters or {})
JsonDumps(p) ==
    CASE p = "obj" ->
            << "{", "\"", "t", "y", "p", "e", "\"", ":", " ",
               "\"", "o", "b", "j", "e", "c", "t", "\"", "}" >>
      [] p = "list" -> << "[", "1", "]" >>
      [] p = "json_obj" ->
            << "\"", "{", "\\", "\"", "t", "y", "p", "e", "\\", "\"", ":", " ",
               "\\", "\"", "o", "b", "j", "e", "c", "t", "\\", "\"", "}", "\"" >>
      [] p = "json_list" -> << "\"", "[", "1", "]", "\"" >>
      [] p = "json_num" -> << "\"", "1", "\"" >>
      [] p = "not_json" -> << "\"", "o", "o", "p", "s", "\"" >>
      [] OTHER -> << "{", "}" >>

\* Mutant of MessageTexts: a message's first tool call adds its arguments to
\* the text that is counted.
RECURSIVE MessageTexts_WithToolCalls(_)
MessageTexts_WithToolCalls(ms) ==
    IF ms = << >> THEN << >>
    ELSE << ExtractText(Head(ms))
            \o (IF Head(ms).tool_calls = << >> THEN << >>
                ELSE Head(ms).tool_calls[1].arguments) >>
         \o MessageTexts_WithToolCalls(Tail(ms))

RECURSIVE MessageTexts(_)
MessageTexts(ms) ==
    IF ms = << >> THEN << >>
    ELSE << ExtractText(Head(ms)) >> \o MessageTexts(Tail(ms))

ToolTokens(tool) ==
    NumTokens(tool.name)
    + NumTokens(IF tool.has_description THEN tool.description ELSE << >>)
    + NumTokens(JsonDumps(tool.parameters))

RECURSIVE SumToolTokens(_)
SumToolTokens(ts) ==
    IF ts = << >> THEN 0 ELSE ToolTokens(Head(ts)) + SumToolTokens(Tail(ts))

\* Mutant of GetNumTokens: the tools are left out of the count.
GetNumTokens_SkipsTools(msgs, ts) ==
    LET text == Join(<< "\n" >>, NonEmptyOnly(MessageTexts(msgs)))
    IN  IF text = << >> THEN 0 ELSE NumTokens(text)

GetNumTokens(msgs, ts) ==
    LET text == Join(<< "\n" >>, NonEmptyOnly(MessageTexts(msgs)))
    IN  IF text = << >> THEN 0
        ELSE NumTokens(text) + SumToolTokens(ts)

\* ------------------------------------------------------------ _build_usage
\* response.usage: present FALSE is None / a response without usage.
Usage(i, p, o, c) ==
    [present |-> TRUE, input_tokens |-> i, prompt_tokens |-> p,
     output_tokens |-> o, completion_tokens |-> c]
NoUsage ==
    [present |-> FALSE, input_tokens |-> NoneInt, prompt_tokens |-> NoneInt,
     output_tokens |-> NoneInt, completion_tokens |-> NoneInt]

\* The terminal response object carried by a 'completed' event.
NoResponse == [present |-> FALSE, usage |-> NoUsage]
Response(u) == [present |-> TRUE, usage |-> u]

\* AssistantPromptMessage(content=text, tool_calls=calls)
AssistantMessage(text, calls) ==
    Message("assistant", "str", text, << >>, calls, NoCall)

\* Mutant of BuildUsage: one missing remote count discards the other too.
BuildUsage_Coupled(response, msgs, assistant_prompt_message, ts) ==
    LET u == IF response.present THEN response.usage ELSE NoUsage
        p == IF u.present THEN IntOr(u.input_tokens, IntOr(u.prompt_tokens, 0)) ELSE 0
        c == IF u.present
             THEN IntOr(u.output_tokens, IntOr(u.completion_tokens, 0)) ELSE 0
        local == p = 0 \/ c = 0
    IN  [prompt_tokens |-> IF local THEN GetNumTokens(msgs, ts) ELSE p,
         completion_tokens |->
            IF local THEN GetNumTokens(<< assistant_prompt_message >>, << >>)
            ELSE c]

BuildUsage(response, msgs, assistant_prompt_message, ts) ==
    LET response_usage == IF response.present THEN response.usage ELSE NoUsage
        remote_prompt ==
            IF response_usage.present
            THEN IntOr(response_usage.input_tokens,
                       IntOr(response_usage.prompt_tokens, 0))
            ELSE 0
        remote_completion ==
            IF response_usage.present
            THEN IntOr(response_usage.output_tokens,
                       IntOr(response_usage.completion_tokens, 0))
            ELSE 0
    IN  [prompt_tokens |->
            IF remote_prompt = 0 THEN GetNumTokens(msgs, ts) ELSE remote_prompt,
         completion_tokens |->
            IF remote_completion = 0
            THEN GetNumTokens(<< assistant_prompt_message >>, << >>)
            ELSE remote_completion]

\* --------------------------------------------------------- _build_tool_call
EmptyJson == << "{", "}" >>

BuildToolCall(function_name, call_id, arguments) ==
    [id |-> IdOr(call_id, function_name),
     name |-> function_name,
     arguments |-> StrOr(arguments, EmptyJson)]

\* ------------------------------------------------- _invoke_error_mapping
\* The openai exception classes and their base class ("Exception" stands for
\* every exception that is no OpenAIError, such as an httpx transport error).
ExceptionClasses ==
    { "APIConnectionError", "APITimeoutError", "InternalServerError",
      "RateLimitError", "AuthenticationError", "PermissionDeniedError",
      "BadRequestError", "NotFoundError", "UnprocessableEntityError",
      "ConflictError", "APIStatusError", "APIResponseValidationError",
      "APIError", "OpenAIError", "Exception" }

BaseClass(cls) ==
    CASE cls = "APITimeoutError" -> "APIConnectionError"
      [] cls \in {"APIConnectionError", "APIStatusError",
                  "APIResponseValidationError"} -> "APIError"
      [] cls \in {"InternalServerError", "RateLimitError", "AuthenticationError",
                  "PermissionDeniedError", "BadRequestError", "NotFoundError",
                  "UnprocessableEntityError", "ConflictError"} -> "APIStatusError"
      [] cls = "APIError" -> "OpenAIError"
      [] OTHER -> "Exception"

\* isinstance(ex, cls)
RECURSIVE IsInstance(_, _)
IsInstance(ex, cls) ==
    \/ ex = cls
    \/ ex # "Exception" /\ IsInstance(BaseClass(ex), cls)

\* Mutant of InvokeErrorMapping: the bad-request entry is scanned first.
InvokeErrorMapping_BadRequestFirst ==
    << [error |-> "InvokeBadRequestError",
        classes |-> {"BadRequestError", "NotFoundError",
                     "UnprocessableEntityError", "APIError"}],
       [error |-> "InvokeConnectionError",
        classes |-> {"APIConnectionError", "APITimeoutError"}],
       [error |-> "InvokeServerUnavailableError",
        classes |-> {"InternalServerError"}],
       [error |-> "InvokeRateLimitError",
        classes |-> {"RateLimitError"}],
       [error |-> "InvokeAuthorizationError",
        classes |-> {"AuthenticationError", "PermissionDeniedError"}] >>

\* The mapping, in the dict's insertion order.
InvokeErrorMapping ==
    << [error |-> "InvokeConnectionError",
        classes |-> {"APIConnectionError", "APITimeoutError"}],
       [error |-> "InvokeServerUnavailableError",
        classes |-> {"InternalServerError"}],
       [error |-> "InvokeRateLimitError",
        classes |-> {"RateLimitError"}],
       [error |-> "InvokeAuthorizationError",
        classes |-> {"AuthenticationError", "PermissionDeniedError"}],
       [error |-> "InvokeBadRequestError",
        classes |-> {"BadRequestError", "NotFoundError",
                     "UnprocessableEntityError", "APIError"}] >>

\* The except branch of _with_invoke_error_mapping: the exception it raises.
RECURSIVE ScanMapping(_, _)
ScanMapping(mapping, ex) ==
    IF mapping = << >> THEN "InvokeError"
    ELSE IF \E cls \in Head(mapping).classes : IsInstance(ex, cls)
         THEN Head(mapping).error
         ELSE ScanMapping(Tail(mapping), ex)

WithInvokeErrorMapping(ex) == ScanMapping(InvokeErrorMapping, ex)

\* What the caller of the turn catches: kind "" is no exception, kind "Raw"
\* is the transport's own exception ex, unmapped.
NoError == [kind |-> "", ex |-> ""]
MappedError(ex) == [kind |-> WithInvokeErrorMapping(ex), ex |-> ex]
RawError(ex) == [kind |-> "Raw", ex |-> ex]

\* Exceptions the event iterator raises while the stream is consumed: an
\* 'error' server-sent event (APIError) or a transport failure.
StreamFaults == {"APIError", "Exception"}

\* ------------------------------------------------ one-shot response decoder
\* A content part of a 'message' output item.
ContentPart(t, x) == [type |-> t, text |-> x]

\* An output item of a one-shot response.  args_kind is "str", "dict"
\* (dict is then the object's kind, see JsonDumps), "other" or "absent".
OutputItem(t, cs, x, n, ak, a, d, c, i) ==
    [type |-> t, content |-> cs, text |-> x, name |-> n,
     args_kind |-> ak, arguments |-> a, dict |-> d, call_id |-> c, id |-> i]

MessageItem(cs) ==
    OutputItem("message", cs, << >>, "", "absent", << >>, "none", "", "")
TextItem(t, x) ==
    OutputItem(t, << >>, x, "", "absent", << >>, "none", "", "")
CallItem(n, ak, a, d, c, i) ==
    OutputItem("function_call", << >>, << >>, n, ak, a, d, c, i)

\* A one-shot response: has_output_text FALSE is a response without the
\* denormalized output_text field.
OneShot(hot, ot, out, u) ==
    [has_output_text |-> hot, output_text |-> ot, output |-> out, usage |-> u]

\* Mutant of ContentTexts: only parts of type output_text are read.
RECURSIVE ContentTexts_OutputTextOnly(_)
ContentTexts_OutputTextOnly(cs) ==
    IF cs = << >> THEN << >>
    ELSE IF Head(cs).type = "output_text" /\ Head(cs).text # << >>
         THEN << Head(cs).text >> \o ContentTexts_OutputTextOnly(Tail(cs))
         ELSE ContentTexts_OutputTextOnly(Tail(cs))

RECURSIVE ContentTexts(_)
ContentTexts(cs) ==
    IF cs = << >> THEN << >>
    ELSE IF Head(cs).type \in {"output_text", "text", "input_text"}
            /\ Head(cs).text # << >>
         THEN << Head(cs).text >> \o ContentTexts(Tail(cs))
         ELSE ContentTexts(Tail(cs))

RECURSIVE ItemTexts(_)
ItemTexts(items) ==
    IF items = << >> THEN << >>
    ELSE LET item == Head(items)
         IN  IF item.type = "message"
             THEN ContentTexts(item.content) \o ItemTexts(Tail(items))
             ELSE IF item.type \in {"output_text", "text"} /\ item.text # << >>
             THEN << item.text >> \o ItemTexts(Tail(items))
             ELSE ItemTexts(Tail(items))

\* Mutant of ExtractResponseText: the texts are joined with a space.
ExtractResponseText_Spaced(response) ==
    Join(<< " " >>, ItemTexts(response.output))

ExtractResponseText(response) == Join(<< >>, ItemTexts(response.output))

NormalizeArguments(item) ==
    CASE item.args_kind = "str" -> item.arguments
      [] item.args_kind = "dict" -> JsonDumps(item.dict)
      [] OTHER -> EmptyJson

RECURSIVE ExtractResponseToolCalls(_)
ExtractResponseToolCalls(items) ==
    IF items = << >> THEN << >>
    ELSE LET item == Head(items)
         IN  IF item.type # "function_call" \/ item.name = ""
             THEN ExtractResponseToolCalls(Tail(items))
             ELSE << BuildToolCall(item.name, IdOr(item.call_id, item.id),
                                   NormalizeArguments(item)) >>
                  \o ExtractResponseToolCalls(Tail(items))

\* _handle_responses_response: the LLMResult's message and usage.
HandleResponsesResponse(response, msgs, ts) ==
    LET content ==
            IF response.has_output_text /\ response.output_text # << >>
            THEN response.output_text
            ELSE ExtractResponseText(response)
        calls == ExtractResponseToolCalls(response.output)
    IN  [present |-> TRUE, content |-> content, tool_calls |-> calls,
         usage |-> BuildUsage(Response(response.usage), msgs,
                              AssistantMessage(content, calls), ts)]

NoResult ==
    [present |-> FALSE, content |-> << >>, tool_calls |-> << >>,
     usage |-> [prompt_tokens |-> 0, completion_tokens |-> 0]]

\* The one-shot responses the remote side answers with.
OneShotResponses ==
    { OneShot(FALSE, << >>, << >>, NoUsage),
      OneShot(TRUE, << "o", "k" >>,
              << MessageItem(<< ContentPart("output_text", << "o", "k" >>) >>) >>,
              Usage(11, NoneInt, 21, NoneInt)),
      OneShot(FALSE, << >>,
              << MessageItem(<< ContentPart("output_text", << "a" >>),
                                ContentPart("refusal", << "r" >>),
                                ContentPart("text", << "b" >>) >>),
                 TextItem("text", << "c" >>),
                 TextItem("reasoning", << "x" >>) >>,
              Usage(0, 12, NoneInt, NoneInt)),
      OneShot(TRUE, << >>,
              << CallItem("f", "str", << "j" >>, "none", "c1", "i1"),
                 CallItem("", "str", << "j" >>, "none", "c2", "i2"),
                 CallItem("f", "dict", << >>, "obj", "", "i3"),
                 CallItem("f", "absent", << >>, "none", "", "") >>,
              Usage(NoneInt, NoneInt, 0, 22)),
      OneShot(FALSE, << >>,
              << TextItem("output_text", << " " >>),
                 CallItem("f", "other", << >>, "none", "c1", "") >>,
              NoUsage) }

\* ------------------------------------------------------------ stream events
\* The item carried by an output_item event; present FALSE is item None.
Item(t, c, n, a) ==
    [present |-> TRUE, type |-> t, call_id |-> c, name |-> n, arguments |-> a]
NoItem ==
    [present |-> FALSE, type |-> "", call_id |-> "", name |-> "", arguments |-> << >>]

\* One stream event.  Attributes an event kind does not carry hold the default
\* getattr() reads for them; arguments_is_str FALSE is an 'arguments' attribute
\* that is no str.
Event(t, d, iid, it, a, astr, r) ==
    [type |-> t, delta |-> d, item_id |-> iid, item |-> it,
     arguments |-> a, arguments_is_str |-> astr, response |-> r]

CallIds == {"", "c1", "c2"}
TextDeltas == {<< >>, << "a" >>, << " " >>}
ArgDeltas == {<< >>, << "x" >>, << "y" >>}
DoneArguments == {<< >>, << "z" >>}
ItemArguments == {<< >>, << "w" >>}

\* Function-call items: every call id, with a name and each arguments value,
\* or without a name.
FunctionCallItems(args) ==
    { Item("function_call", c, "f", a) : c \in CallIds, a \in args }
    \cup { Item("function_call", c, "", << >>) : c \in CallIds }
OtherItems == { NoItem, Item("message", "", "", << >>) }

TextDeltaEvents ==
    { Event("response.output_text.delta", d, "", NoItem, << >>, TRUE, NoResponse) :
        d \in TextDeltas }
OutputItemAddedEvents ==
    { Event("response.output_item.added", << >>, "", it, << >>, TRUE, NoResponse) :
        it \in FunctionCallItems({<< >>}) \cup OtherItems }
ArgumentsDeltaEvents ==
    { Event("response.function_call_arguments.delta", d, c, NoItem, << >>, TRUE,
            NoResponse) : d \in ArgDeltas, c \in CallIds }
ArgumentsDoneEvents ==
    { Event("response.function_call_arguments.done", << >>, c, NoItem, a, TRUE,
            NoResponse) : a \in DoneArguments, c \in CallIds }
    \cup
    { Event("response.function_call_arguments.done", << >>, c, NoItem, << >>, FALSE,
            NoResponse) : c \in {"", "c1"} }
OutputItemDoneEvents ==
    { Event("response.output_item.done", << >>, "", it, << >>, TRUE, NoResponse) :
        it \in FunctionCallItems(ItemArguments) \cup OtherItems }

\* The terminal responses a 'completed' event carries.
TerminalResponses ==
    { NoResponse,
      Response(NoUsage),
      Response(Usage(11, 12, 0, NoneInt)),
      Response(Usage(NoneInt, 12, 0, 22)),
      Response(Usage(0, 0, 21, NoneInt)) }
CompletedEvents ==
    { Event("response.completed", << >>, "", NoItem, << >>, TRUE, r) :
        r \in TerminalResponses }
OtherEvents ==
    { Event(t, << >>, "", NoItem, << >>, TRUE, NoResponse) :
        t \in {"response.created"} }

\* ------------------------------------------- _convert_tool_to_response_tool
\* isinstance(parameters, str) and isinstance(parameters, dict)
IsStrParameters(p) == p \in {"json_obj", "json_list", "json_num", "not_json"}
IsDictParameters(p) == p \in {"empty", "obj"}

\* {"type": "object", "properties": {}}
EmptySchema == "schema"

\* json.loads(parameters): the parsed value ("num" is the number 1), or
\* "error" when it raises json.JSONDecodeError.
JsonLoads(p) ==
    CASE p = "json_obj" -> "obj"
      [] p = "json_list" -> "list"
      [] p = "json_num" -> "num"
      [] OTHER -> "error"

ConvertParameters(p) ==
    IF IsStrParameters(p)
    THEN IF JsonLoads(p) = "error" THEN EmptySchema ELSE JsonLoads(p)
    ELSE IF ~IsDictParameters(p) THEN EmptySchema
    ELSE p

ConvertToolToResponseTool(tool) ==
    [type |-> "function",
     name |-> tool.name,
     description |-> IF tool.has_description THEN tool.description ELSE << >>,
     parameters |-> ConvertParameters(tool.parameters)]

RECURSIVE ConvertTools(_)
ConvertTools(ts) ==
    IF ts = << >> THEN << >>
    ELSE << ConvertToolToResponseTool(Head(ts)) >> \o ConvertTools(Tail(ts))

\* ------------------------------- _convert_prompt_messages_to_responses_input
\* One element of a user message's content list; detail "" is no detail key.
ContentPartOf(type, text, image_url, detail) ==
    [type |-> type, text |-> text, image_url |-> image_url, detail |-> detail]

ConvertContentItem(item) ==
    IF item.ptype = "text"
    THEN << ContentPartOf("input_text", item.data, << >>, "") >>
    ELSE IF item.ptype = "image"
    THEN << ContentPartOf("input_image", << >>,
                          StrOr(item.url, item.data), item.detail) >>
    ELSE << >>

RECURSIVE ConvertContentItems(_)
ConvertContentItems(ps) ==
    IF ps = << >> THEN << >>
    ELSE ConvertContentItem(Head(ps)) \o ConvertContentItems(Tail(ps))

\* One element of the input list.  entry "text" is {"role", "content"} with a
\* str content, "parts" the same with a list content, "function_call" is
\* {"type", "call_id", "name", "arguments"} and "function_call_output" is
\* {"type", "call_id", "output"}; the fields an element lacks are empty.
InputEntry(entry, role, content, parts, call_id, name, arguments, output) ==
    [entry |-> entry, role |-> role, content |-> content, parts |-> parts,
     call_id |-> call_id, name |-> name, arguments |-> arguments,
     output |-> output]
TextEntry(role, t) ==
    InputEntry("text", role, t, << >>, "", "", << >>, << >>)
PartsEntry(role, ps) ==
    InputEntry("parts", role, << >>, ps, "", "", << >>, << >>)
FunctionCallEntry(call_id, name, arguments) ==
    InputEntry("function_call", "", << >>, << >>, call_id, name, arguments, << >>)
FunctionCallOutputEntry(call_id, output) ==
    InputEntry("function_call_output", "", << >>, << >>, call_id, "", << >>, output)

RECURSIVE ConvertToolCalls_NoIdFallback(_)
ConvertToolCalls_NoIdFallback(tcs) ==
    IF tcs = << >> THEN << >>
    ELSE << FunctionCallEntry(Head(tcs).id, Head(tcs).name,
                              StrOr(Head(tcs).arguments, EmptyJson)) >>
         \o ConvertToolCalls_NoIdFallback(Tail(tcs))

RECURSIVE ConvertToolCalls(_)
ConvertToolCalls(tcs) ==
    IF tcs = << >> THEN << >>
    ELSE << FunctionCallEntry(IdOr(Head(tcs).id, Head(tcs).name),
                              Head(tcs).name,
                              StrOr(Head(tcs).arguments, EmptyJson)) >>
         \o ConvertToolCalls(Tail(tcs))

\* The body of `for message in prompt_messages`: what one message appends.
ConvertUserParts(message) ==
    IF ConvertContentItems(message.parts) # << >>
    THEN << PartsEntry("user", ConvertContentItems(message.parts)) >>
    ELSE << >>

ConvertPromptMessage(message) ==
    CASE message.role = "system" ->
            IF ExtractText(message) # << >>
            THEN << TextEntry("developer", ExtractText(message)) >>
            ELSE << >>
      [] message.role = "user" ->
            IF message.kind = "str"
            THEN << TextEntry("user", message.text) >>
            ELSE ConvertUserParts(message)
      [] message.role = "assistant" ->
            (IF ExtractText(message) # << >>
             THEN << TextEntry("assistant", ExtractText(message)) >>
             ELSE << >>)
            \o ConvertToolCalls(message.tool_calls)
      [] message.role = "tool" ->
            << FunctionCallOutputEntry(message.tool_call_id,
                                       StrOr(ExtractText(message), << >>)) >>
      [] OTHER ->
            IF ExtractText(message) # << >>
            THEN << TextEntry("user", ExtractText(message)) >>
            ELSE << >>

RECURSIVE ConvertPromptMessagesToResponsesInput(_)
ConvertPromptMessagesToResponsesInput(ms) ==
    IF ms = << >> THEN << >>
    ELSE ConvertPromptMessage(Head(ms))
         \o ConvertPromptMessagesToResponsesInput(Tail(ms))

\* ---------------------------------------- _resolve_model_with_performance_tier
UpperCase ==
    << "A", "B", "C", "D", "E", "F", "G", "H", "I", "J", "K", "L", "M",
       "N", "O", "P", "Q", "R", "S", "T", "U", "V", "W", "X", "Y", "Z" >>
LowerCase ==
    << "a", "b", "c", "d", "e", "f", "g", "h", "i", "j", "k", "l", "m",
       "n", "o", "p", "q", "r", "s", "t", "u", "v", "w", "x", "y", "z" >>
Digits == {"0", "1", "2", "3", "4", "5", "6", "7", "8", "9"}

LowerChar(c) ==
    IF \E i \in DOMAIN UpperCase : UpperCase[i] = c
    THEN LowerCase[CHOOSE i \in DOMAIN UpperCase : UpperCase[i] = c]
    ELSE c

\* str.lower()
Lower(s) == [i \in DOMAIN s |-> LowerChar(s[i])]

\* str.lstrip("-")
RECURSIVE LStripHyphen(_)
LStripHyphen(s) ==
    IF s = << >> THEN << >>
    ELSE IF Head(s) = "-" THEN LStripHyphen(Tail(s)) ELSE s

\* _TIER_VALUE_PATTERN.fullmatch(tier): ^[a-z0-9][a-z0-9._-]{0,31}$
TierValueFirst == { LowerCase[i] : i \in DOMAIN LowerCase } \cup Digits
TierValueRest == TierValueFirst \cup {".", "_", "-"}
TierValueMaxRest == 31

TierValueMatch_AnyFirst(tier) ==
    /\ tier # << >>
    /\ Len(tier) - 1 <= TierValueMaxRest
    /\ \A i \in 1..Len(tier) : tier[i] \in TierValueRest

TierValueMatch(tier) ==
    /\ tier # << >>
    /\ tier[1] \in TierValueFirst
    /\ Len(tier) - 1 <= TierValueMaxRest
    /\ \A i \in 2..Len(tier) : tier[i] \in TierValueRest

\* _TIER_SUFFIX_PATTERN: -(?:medium|high|xhigh)(?:-(?:medium|high|xhigh))?$
\* with re.IGNORECASE.
TierWords ==
    { << "m", "e", "d", "i", "u", "m" >>, << "h", "i", "g", "h" >>,
      << "x", "h", "i", "g", "h" >> }
TierSuffixes ==
    { << "-" >> \o w : w \in TierWords }
    \cup { << "-" >> \o v \o << "-" >> \o w : v \in TierWords, w \in TierWords }

\* The start of the match: the leftmost position from which the pattern
\* matches up to the end of the string, or 0 when there is none.  (A model
\* name holds no newline, so `$` is the end of the string.)
TierSuffixStart(model) ==
    LET starts ==
            { i \in 1..Len(model) :
                Lower(SubSeq(model, i, Len(model))) \in TierSuffixes }
    IN  IF starts = {} THEN 0
        ELSE CHOOSE i \in starts : \A j \in starts : i <= j

\* _TIER_SUFFIX_PATTERN.sub("", model)
TierSuffixSub(model) ==
    IF TierSuffixStart(model) = 0 THEN model
    ELSE SubSeq(model, 1, TierSuffixStart(model) - 1)

Auto == << "a", "u", "t", "o" >>

ResolveModelWithPerformanceTier(model, tier_value, custom_tier_value) ==
    LET custom_tier == LStripHyphen(Lower(Strip(custom_tier_value)))
        tier == IF custom_tier # << >> THEN custom_tier
                ELSE Lower(Strip(StrOr(tier_value, Auto)))
    IN  IF tier \in { << >>, Auto } THEN model
        ELSE IF ~TierValueMatch(tier) THEN model
        ELSE TierSuffixSub(model) \o << "-" >> \o tier

\* --------------------------------------------------- _build_responses_payload
\* A dict is a function from its keys; these are {} and dict.get(key).
EmptyDict == [k \in {} |-> NoCall]
DictGet(d, key, default) == IF key \in DOMAIN d THEN d[key] ELSE default
DictItem(key, present, value) == IF present THEN key :> value ELSE EmptyDict

\* `if v:` on an optional identifier
Truthy(v) == v # "" /\ v # NoCall

MaxOutputTokens_SecondNameFirst(model_parameters) ==
    IF "max_completion_tokens" \in DOMAIN model_parameters
    THEN "max_output_tokens" :> model_parameters["max_completion_tokens"]
    ELSE IF "max_tokens" \in DOMAIN model_parameters
    THEN "max_output_tokens" :> model_parameters["max_tokens"]
    ELSE EmptyDict

MaxOutputTokens(model_parameters) ==
    IF "max_tokens" \in DOMAIN model_parameters
    THEN "max_output_tokens" :> model_parameters["max_tokens"]
    ELSE IF "max_completion_tokens" \in DOMAIN model_parameters
    THEN "max_output_tokens" :> model_parameters["max_completion_tokens"]
    ELSE EmptyDict

BuildResponsesPayload(messages, model_parameters, tool_list, stop_list, user_id) ==
    LET reasoning_effort == DictGet(model_parameters, "reasoning_effort", NoCall)
        verbosity == DictGet(model_parameters, "verbosity", NoCall)
    IN  ("input" :> ConvertPromptMessagesToResponsesInput(messages))
        @@ DictItem("temperature", "temperature" \in DOMAIN model_parameters,
                    DictGet(model_parameters, "temperature", NoneInt))
        @@ DictItem("top_p", "top_p" \in DOMAIN model_parameters,
                    DictGet(model_parameters, "top_p", NoneInt))
        @@ MaxOutputTokens(model_parameters)
        @@ DictItem("reasoning", Truthy(reasoning_effort),
                    [effort |-> reasoning_effort])
        @@ DictItem("text", Truthy(verbosity), [verbosity |-> verbosity])
        @@ DictItem("tools", tool_list # << >>, ConvertTools(tool_list))
        @@ DictItem("tool_choice", tool_list # << >>, "auto")
        @@ DictItem("stop", stop_list # << >>, stop_list)

\* ------------------------------------------------- _invoke, up to the request
\* model_parameters.pop("enable_stream", None) is False
EffectiveStream(stream_flag, model_parameters) ==
    IF "enable_stream" \in DOMAIN model_parameters
       /\ model_parameters["enable_stream"] = FALSE
    THEN FALSE ELSE stream_flag

\* The keyword arguments of client.responses.create.
BuildRequest(name, messages, parameters, tool_list, stop_list, user_id, flag) ==
    [model |->
        ResolveModelWithPerformanceTier(
            name,
            DictGet(parameters, "performance_tier", Auto),
            DictGet(parameters, "custom_performance_tier", << >>)),
     stream |-> EffectiveStream(flag, parameters),
     payload |->
        BuildResponsesPayload(messages, parameters, tool_list, stop_list,
                              user_id)]
NoRequest == [model |-> << >>, stream |-> FALSE, payload |-> EmptyDict]

\* ------------------------------------------------------------ remote_models
\* A predefined AIModelEntity: its model id and what is copied from it
\* (features, model_properties, parameter_rules, pricing), here one stamp.
Template(id, stamp) == [model |-> id, stamp |-> stamp]

\* item.model == "gpt-5.2"
Flagship == "gpt-5.2"

\* Mutant of PickTemplateModel: always the first predefined model.
PickTemplateModel_First(predefined_models) == predefined_models[1]

\* next((item for item in predefined_models if item.model == "gpt-5.2"),
\*      predefined_models[0]); called with a non-empty list.
PickTemplateModel(predefined_models) ==
    LET matches == { i \in DOMAIN predefined_models :
                       predefined_models[i].model = Flagship }
    IN  IF matches = {} THEN predefined_models[1]
        ELSE predefined_models[CHOOSE i \in matches : \A j \in matches : i <= j]

BuildModelEntityFromTemplate(model_id, template) ==
    [model |-> model_id, label |-> model_id, model_type |-> "llm",
     fetch_from |-> "customizable-model", stamp |-> template.stamp]

\* The /models answer: kind "page" is an object whose data attribute is the
\* list, "no_data" one whose data is None, "list" a bare list.
Listing(kind, items) == [kind |-> kind, items |-> items]
RemoteItems(listed_models) ==
    IF listed_models.kind = "no_data" THEN << >> ELSE listed_models.items

\* The loop over remote_items; an id that is missing, None or "" is falsy.
RECURSIVE CollectEntities(_, _, _)
CollectEntities(remote_items, seen, template) ==
    IF remote_items = << >> THEN << >>
    ELSE LET model_id == Head(remote_items).id
         IN  IF ~Truthy(model_id) \/ model_id \in seen
             THEN CollectEntities(Tail(remote_items), seen, template)
             ELSE << BuildModelEntityFromTemplate(model_id, template) >>
                  \o CollectEntities(Tail(remote_items), seen \cup {model_id},
                                     template)

\* ------------------------------------------------------------------ state
VARIABLES
    pc,                 \* "start", "streaming", "done", "returned" or "raised"
    stream,             \* _invoke's stream flag
    prompt_messages,    \* _invoke's prompt_messages
    tools,              \* _invoke's tools
    model,              \* _invoke's model
    model_parameters,   \* _invoke's model_parameters
    stop,               \* _invoke's stop
    user,               \* _invoke's user
    request,            \* the keyword arguments of client.responses.create
    response,           \* the Response a one-shot turn received
    predefined_models,  \* self.predefined_models()
    listed_models,      \* what client.models.list() answers
    entities,           \* what remote_models returns
    full_text,          \* the assembler's accumulated text
    index,              \* the assembler's next chunk index
    tool_calls,         \* the assembler's finalized tool calls
    pending_tool_calls, \* call id -> [name, arguments]
    current_tool_call,  \* the active call id, or NoCall
    final_response,     \* the response of the last 'completed' event
    n_events,           \* how many events the stream has delivered
    chunks,             \* the chunks the generator has yielded, in order
    result,             \* the LLMResult of a one-shot turn
    error,              \* the exception the caller of the turn catches
    last_done           \* history, per call id: the arguments.done event
                        \* that was the last arguments event applied to
                        \* the call since it was announced (set FALSE when
                        \* there is none) and the buffer it replaced

vars ==
    << pc, stream, prompt_messages, tools, model, model_parameters, stop, user,
       request, response, predefined_models, listed_models, entities, full_text, index, tool_calls, pending_tool_calls,
       current_tool_call, final_response, n_events, chunks, result, error,
       last_done >>

\* What a turn reads and never writes: the arguments of _invoke, and the
\* model catalogue, which only remote_models touches.
catalogue == << predefined_models, listed_models, entities >>
inputs ==
    << stream, prompt_messages, tools, model, model_parameters, stop, user,
       catalogue >>
assembler ==
    << full_text, index, tool_calls, pending_tool_calls, current_tool_call,
       final_response, chunks >>

NoDone == [set |-> FALSE, arguments |-> << >>, replaced |-> << >>]
DoneWith(a, old) == [set |-> TRUE, arguments |-> a, replaced |-> old]

\* ------------------------------------------------------------------ chunks
NoChunkUsage == [prompt_tokens |-> 0, completion_tokens |-> 0]

\* LLMResultChunk: finish_reason "" is None, has_usage FALSE is usage None.
Chunk(i, text, calls, reason, has_usage, usage) ==
    [index |-> i, content |-> text, tool_calls |-> calls,
     finish_reason |-> reason, has_usage |-> has_usage, usage |-> usage]

\* Mutant of TextChunk: the chunk carries the index but not the delta text.
TextChunk_Blank(i, delta_text) == Chunk(i, << >>, << >>, "", FALSE, NoChunkUsage)

TextChunk(i, delta_text) == Chunk(i, delta_text, << >>, "", FALSE, NoChunkUsage)
ToolCallChunk(i, tool_call) ==
    Chunk(i, << >>, << tool_call >>, "", FALSE, NoChunkUsage)
FinalChunk(i, finish_reason, usage) ==
    Chunk(i, << >>, << >>, finish_reason, TRUE, usage)

\* Mutant of NextIndex: the index is not advanced after a yield.
NextIndex_Stuck(i) == i

\* index += 1 after a yield
NextIndex(i) == i + 1

\* ------------------------------------------------- the assembler's decisions
\* Mutant of ResolveCallId: the active call wins over the event's own id.
ResolveCallId_ActiveFirst(item_id, current) == IdOr(current, item_id)

\* getattr(event, "item_id", "") or current_tool_call
ResolveCallId(item_id, current) == IdOr(item_id, current)

IsPending(call_id, pending) ==
    call_id # "" /\ call_id # NoCall /\ call_id \in DOMAIN pending

\* pending_tool_calls[call_id]["arguments"] += delta_args
AppendArguments(buffer, delta_args) == buffer \o delta_args

\* Mutant of OverwriteArguments: the done event's string is appended.
OverwriteArguments_Appends(buffer, final_args) == buffer \o final_args

\* pending_tool_calls[call_id]["arguments"] = final_args
OverwriteArguments(buffer, final_args) == final_args

\* Mutant of EffectiveArguments: the item's own arguments win over the buffer.
EffectiveArguments_ItemFirst(item, pending) ==
    IF item.arguments # << >> THEN item.arguments
    ELSE IF IsPending(item.call_id, pending)
         THEN StrOr(pending[item.call_id].arguments, EmptyJson)
         ELSE EmptyJson

\* The arguments handed to _build_tool_call by output_item.done.
EffectiveArguments(item, pending) ==
    LET fallback_arguments == StrOr(item.arguments, EmptyJson)
    IN  IF IsPending(item.call_id, pending)
        THEN StrOr(pending[item.call_id].arguments, fallback_arguments)
        ELSE fallback_arguments

\* Mutant of FinishReason: the accumulated text is not looked at.
FinishReason_IgnoresText(calls, text) ==
    IF calls # << >> THEN "tool_calls" ELSE "stop"

FinishReason(calls, text) ==
    IF calls # << >> /\ Strip(text) = << >> THEN "tool_calls" ELSE "stop"

\* Mutant of SetPending: an id that is pending already keeps its entry.
SetPending_KeepsExisting(pending, call_id, entry) ==
    [c \in DOMAIN pending \cup {call_id} |->
        IF c \in DOMAIN pending THEN pending[c] ELSE entry]

SetPending(pending, call_id, entry) ==
    [c \in DOMAIN pending \cup {call_id} |->
        IF c = call_id THEN entry ELSE pending[c]]

\* Mutant of DelPending: the entry stays in the table.
DelPending_Keeps(pending, call_id) == pending

DelPending(pending, call_id) ==
    [c \in DOMAIN pending \ {call_id} |-> pending[c]]

\* -------------------------------------------------------------------- Init
\* Nothing has been requested, received or assembled yet.
NotReceived == OneShot(FALSE, << >>, << >>, NoUsage)
NoCatalogue ==
    /\ predefined_models = << >>
    /\ listed_models = Listing("list", << >>)
    /\ entities = << >>

\* No turn has run: nothing sent, received, assembled or raised.
FreshTurn ==
    /\ request = NoRequest
    /\ response = NotReceived
    /\ full_text = << >>
    /\ index = 0
    /\ tool_calls = << >>
    /\ pending_tool_calls = [c \in {} |-> [name |-> "", arguments |-> << >>]]
    /\ current_tool_call = NoCall
    /\ final_response = NoResponse
    /\ n_events = 0
    /\ chunks = << >>
    /\ result = NoResult
    /\ error = NoError
    /\ last_done = [c \in CallIds |-> NoDone]
Fresh ==
    /\ NoCatalogue
    /\ FreshTurn

\* The model, model_parameters, stop and user a turn is started with:
\* streaming left to the stream flag, or switched off by enable_stream.
Gpt5 == << "g", "p", "t", "-", "5" >>
High == << "h", "i", "g", "h" >>
TurnParameters ==
    { "temperature" :> 1,
      ("enable_stream" :> FALSE) @@ ("performance_tier" :> High) }

Init ==
    /\ pc = "start"
    /\ stream \in BOOLEAN
    /\ \E inp \in TurnInputs :
          /\ prompt_messages = inp.prompt_messages
          /\ tools = inp.tools
    /\ model = Gpt5
    /\ model_parameters \in TurnParameters
    /\ stop = << >>
    /\ user = NoCall
    /\ Fresh

\* ----------------------------------------------------------------- _invoke
\* client.responses.create raises: the fault is mapped and re-raised.
InvokeFault ==
    /\ pc = "start"
    /\ request' = BuildRequest(model, prompt_messages, model_parameters,
                                tools, stop, user, stream)
    /\ \E ex \in ExceptionClasses :
          /\ error' = MappedError(ex)
          /\ pc' = "raised"
    /\ UNCHANGED << inputs, response, assembler, n_events, result, last_done >>

\* stream = True: the generator is returned; it has not run yet.
InvokeStream ==
    /\ pc = "start"
    /\ EffectiveStream(stream, model_parameters)
    /\ request' = BuildRequest(model, prompt_messages, model_parameters,
                                tools, stop, user, stream)
    /\ pc' = "streaming"
    /\ UNCHANGED << inputs, response, assembler, n_events, result, error,
                    last_done >>

\* stream = False: the response is decoded into the LLMResult.
InvokeOneShot(received) ==
    /\ pc = "start"
    /\ ~EffectiveStream(stream, model_parameters)
    /\ request' = BuildRequest(model, prompt_messages, model_parameters,
                                tools, stop, user, stream)
    /\ response' = received
    /\ result' = HandleResponsesResponse(received, prompt_messages, tools)
    /\ pc' = "returned"
    /\ UNCHANGED << inputs, assembler, n_events, error, last_done >>

\* ------------------------------------------ _handle_responses_stream_response
\* One iteration of `for event in response`: one more event is delivered.
Deliver ==
    /\ pc = "streaming"
    /\ n_events < MaxEvents
    /\ n_events' = n_events + 1
    /\ UNCHANGED << pc, inputs, request, response, result, error >>

\* response.output_text.delta
OutputTextDelta(e) ==
        /\ Deliver
        /\ IF e.delta = << >>
           THEN UNCHANGED << full_text, chunks, index >>
           ELSE /\ full_text' = full_text \o e.delta
                /\ chunks' = Append(chunks, TextChunk(index, e.delta))
                /\ index' = NextIndex(index)
        /\ UNCHANGED << tool_calls, pending_tool_calls, current_tool_call,
                        final_response, last_done >>

\* response.output_item.added
OutputItemAdded(e) ==
        /\ Deliver
        /\ IF e.item.present /\ e.item.type = "function_call" /\ e.item.call_id # ""
           THEN /\ pending_tool_calls' =
                      SetPending(pending_tool_calls, e.item.call_id,
                                 [name |-> e.item.name, arguments |-> << >>])
                /\ current_tool_call' = e.item.call_id
                /\ last_done' = [last_done EXCEPT ![e.item.call_id] = NoDone]
           ELSE UNCHANGED << pending_tool_calls, current_tool_call, last_done >>
        /\ UNCHANGED << full_text, index, tool_calls, final_response, chunks >>

\* response.function_call_arguments.delta
FunctionCallArgumentsDelta(e) ==
        LET call_id == ResolveCallId(e.item_id, current_tool_call)
        IN  /\ Deliver
            /\ IF e.delta # << >> /\ IsPending(call_id, pending_tool_calls)
               THEN pending_tool_calls' =
                      [pending_tool_calls EXCEPT ![call_id].arguments =
                          AppendArguments(@, e.delta)]
               ELSE UNCHANGED pending_tool_calls
            /\ IF IsPending(call_id, pending_tool_calls)
               THEN last_done' = [last_done EXCEPT ![call_id] = NoDone]
               ELSE UNCHANGED last_done
            /\ UNCHANGED << full_text, index, tool_calls, current_tool_call,
                            final_response, chunks >>

\* response.function_call_arguments.done
FunctionCallArgumentsDone(e) ==
        LET call_id == ResolveCallId(e.item_id, current_tool_call)
        IN  /\ Deliver
            /\ IF IsPending(call_id, pending_tool_calls) /\ e.arguments_is_str
               THEN /\ pending_tool_calls' =
                          [pending_tool_calls EXCEPT ![call_id].arguments =
                              OverwriteArguments(@, e.arguments)]
                    /\ last_done' =
                          [last_done EXCEPT ![call_id] =
                              DoneWith(e.arguments,
                                       pending_tool_calls[call_id].arguments)]
               ELSE UNCHANGED << pending_tool_calls, last_done >>
            /\ UNCHANGED << full_text, index, tool_calls, current_tool_call,
                            final_response, chunks >>

\* Mutant of OutputItemDone: the active marker is left as it is.
OutputItemDone_KeepsMarker(e) ==
        /\ Deliver
        /\ IF ~e.item.present \/ e.item.type # "function_call"
           THEN UNCHANGED << tool_calls, chunks, index, pending_tool_calls,
                             current_tool_call, last_done >>
           ELSE LET call_id == e.item.call_id
                    function_name == e.item.name
                    arguments == EffectiveArguments(e.item, pending_tool_calls)
                    tool_call == BuildToolCall(function_name, call_id, arguments)
                IN  /\ IF function_name # ""
                       THEN /\ tool_calls' = Append(tool_calls, tool_call)
                            /\ chunks' = Append(chunks, ToolCallChunk(index, tool_call))
                            /\ index' = NextIndex(index)
                       ELSE UNCHANGED << tool_calls, chunks, index >>
                    /\ pending_tool_calls' =
                          IF call_id \in DOMAIN pending_tool_calls
                          THEN DelPending(pending_tool_calls, call_id)
                          ELSE pending_tool_calls
                    /\ current_tool_call' = current_tool_call
                    /\ UNCHANGED last_done
        /\ UNCHANGED << full_text, final_response >>

\* Mutant of OutputItemDone: when the active call is done, the marker goes
\* back to a call that is still pending.
OutputItemDone_RevertsMarker(e) ==
        /\ Deliver
        /\ IF ~e.item.present \/ e.item.type # "function_call"
           THEN UNCHANGED << tool_calls, chunks, index, pending_tool_calls,
                             current_tool_call, last_done >>
           ELSE LET call_id == e.item.call_id
                    function_name == e.item.name
                    arguments == EffectiveArguments(e.item, pending_tool_calls)
                    tool_call == BuildToolCall(function_name, call_id, arguments)
                IN  /\ IF function_name # ""
                       THEN /\ tool_calls' = Append(tool_calls, tool_call)
                            /\ chunks' = Append(chunks, ToolCallChunk(index, tool_call))
                            /\ index' = NextIndex(index)
                       ELSE UNCHANGED << tool_calls, chunks, index >>
                    /\ pending_tool_calls' =
                          IF call_id \in DOMAIN pending_tool_calls
                          THEN DelPending(pending_tool_calls, call_id)
                          ELSE pending_tool_calls
                    /\ current_tool_call' =
                          IF call_id # current_tool_call THEN current_tool_call
                          ELSE IF DOMAIN pending_tool_calls \ {call_id} = {}
                          THEN NoCall
                          ELSE CHOOSE c \in DOMAIN pending_tool_calls \ {call_id} :
                                  TRUE
                    /\ UNCHANGED last_done
        /\ UNCHANGED << full_text, final_response >>

\* response.output_item.done
OutputItemDone(e) ==
        /\ Deliver
        /\ IF ~e.item.present \/ e.item.type # "function_call"
           THEN UNCHANGED << tool_calls, chunks, index, pending_tool_calls,
                             current_tool_call, last_done >>
           ELSE LET call_id == e.item.call_id
                    function_name == e.item.name
                    arguments == EffectiveArguments(e.item, pending_tool_calls)
                    tool_call == BuildToolCall(function_name, call_id, arguments)
                IN  /\ IF function_name # ""
                       THEN /\ tool_calls' = Append(tool_calls, tool_call)
                            /\ chunks' = Append(chunks, ToolCallChunk(index, tool_call))
                            /\ index' = NextIndex(index)
                       ELSE UNCHANGED << tool_calls, chunks, index >>
                    /\ pending_tool_calls' =
                          IF call_id \in DOMAIN pending_tool_calls
                          THEN DelPending(pending_tool_calls, call_id)
                          ELSE pending_tool_calls
                    /\ current_tool_call' =
                          IF call_id = current_tool_call THEN NoCall
                          ELSE current_tool_call
                    /\ UNCHANGED last_done
        /\ UNCHANGED << full_text, final_response >>

\* Mutant of ResponseCompleted: the first terminal response seen is kept.
ResponseCompleted_FirstWins(e) ==
        /\ Deliver
        /\ final_response' =
              IF final_response.present THEN final_response ELSE e.response
        /\ UNCHANGED << full_text, index, tool_calls, pending_tool_calls,
                        current_tool_call, chunks, last_done >>

\* response.completed
ResponseCompleted(e) ==
        /\ Deliver
        /\ final_response' = e.response
        /\ UNCHANGED << full_text, index, tool_calls, pending_tool_calls,
                        current_tool_call, chunks, last_done >>

\* Any other event type falls through every branch of the loop body.
OtherEvent(e) ==
        /\ Deliver
        /\ UNCHANGED << assembler, last_done >>

\* The iterator raises while the next event is fetched: nothing in the
\* generator catches it, so the consumer of the chunks gets it as raised.
StreamFault ==
    /\ pc = "streaming"
    /\ \E ex \in StreamFaults :
          error' = RawError(ex)
    /\ pc' = "raised"
    /\ UNCHANGED << inputs, request, response, assembler, n_events, result,
                    last_done >>

\* Mutant of EndOfStream: a call still pending counts as a tool call when the
\* finish reason is computed.
EndOfStream_CountsPending ==
    /\ pc = "streaming"
    /\ LET usage == BuildUsage(final_response, prompt_messages,
                               AssistantMessage(full_text, tool_calls), tools)
           finish_reason ==
               FinishReason(IF DOMAIN pending_tool_calls # {}
                            THEN << "pending" >> ELSE tool_calls, full_text)
       IN  chunks' = Append(chunks, FinalChunk(index, finish_reason, usage))
    /\ pc' = "done"
    /\ UNCHANGED << inputs, request, response, full_text, index, tool_calls,
                    pending_tool_calls, current_tool_call, final_response,
                    n_events, result, error, last_done >>

\* The iterator is exhausted: usage, finish reason and the final chunk.
EndOfStream ==
    /\ pc = "streaming"
    /\ LET usage == BuildUsage(final_response, prompt_messages,
                               AssistantMessage(full_text, tool_calls), tools)
           finish_reason == FinishReason(tool_calls, full_text)
       IN  chunks' = Append(chunks, FinalChunk(index, finish_reason, usage))
    /\ pc' = "done"
    /\ UNCHANGED << inputs, request, response, full_text, index, tool_calls,
                    pending_tool_calls, current_tool_call, final_response,
                    n_events, result, error, last_done >>

\* --------------------------------------------- usage resolution on its own
\* _build_usage applied to every combination of a remote usage object, a
\* prompt, a tool list and an assistant text (the second specification).
UsageCounts == {NoneInt, 0, 7}
UsageResponses ==
    { NoResponse, Response(NoUsage) }
    \cup { Response(Usage(i, p, o, c)) :
             i \in UsageCounts, p \in UsageCounts,
             o \in UsageCounts, c \in UsageCounts }
PromptLists ==
    { << >>, << MsgNone >>, << MsgNone, MsgImageOnly >>, << MsgHi >>,
      << MsgSys, MsgParts >>, << MsgParts, MsgNone, MsgHi >> }
ToolLists == { << >>, << ToolF >>, << ToolG >>, << ToolF, ToolG >> }
AssistantTexts == { << >>, << "o", "k" >>, << "a", " ", "b" >> }

InitUsage ==
    /\ pc = "usage"
    /\ stream \in {FALSE}
    /\ prompt_messages \in PromptLists
    /\ tools \in ToolLists
    /\ model = Gpt5
    /\ model_parameters = EmptyDict
    /\ stop = << >>
    /\ user = NoCall
    /\ request = NoRequest
    /\ response = NotReceived
    /\ NoCatalogue
    /\ final_response \in UsageResponses
    /\ full_text \in AssistantTexts
    /\ index = 0
    /\ tool_calls = << >>
    /\ pending_tool_calls = [c \in {} |-> [name |-> "", arguments |-> << >>]]
    /\ current_tool_call = NoCall
    /\ n_events = 0
    /\ chunks = << >>
    /\ result = NoResult
    /\ error = NoError
    /\ last_done = [c \in CallIds |-> NoDone]

ResolveUsage ==
    /\ pc = "usage"
    /\ result' =
          [present |-> TRUE, content |-> full_text, tool_calls |-> << >>,
           usage |-> BuildUsage(final_response, prompt_messages,
                                AssistantMessage(full_text, tool_calls), tools)]
    /\ pc' = "usage_done"
    /\ UNCHANGED << inputs, request, response, assembler, n_events, error,
                    last_done >>

NextUsage == ResolveUsage

SpecUsage == InitUsage /\ [][NextUsage]_vars

\* ------------------------------------------- request construction on its own
\* _invoke up to the request, applied to tool lists, message lists, tier
\* choices and parameter dicts of every shape (the third specification).
MaxTools == 2
MaxMessages == 2

SeqsUpTo(S, n) == UNION { [1..k -> S] : k \in 0..n }
Repeat(c, n) == [i \in 1..n |-> c]

ParameterKinds ==
    {"none", "empty", "obj", "list", "json_obj", "json_list", "json_num",
     "not_json"}
EncodeTools ==
    { Tool(<< "f" >>, TRUE, << "d", "o", "c" >>, p) : p \in ParameterKinds }
    \cup { Tool(<< "g", "g" >>, FALSE, << >>, p) : p \in ParameterKinds }

PromptToolCall(id, name, arguments) ==
    [id |-> id, name |-> name, arguments |-> arguments]
PromptToolCallLists ==
    { << >>,
      << PromptToolCall("c1", "f", << "x" >>) >>,
      << PromptToolCall("", "f", << >>), PromptToolCall(NoCall, "g", << "x" >>) >> }

UrlU == << "u" >>
DataD == << "d" >>
EncodeMessages ==
    { StrMessage(r, t) :
        r \in {"system", "user", "other"}, t \in {<< >>, << "h", "i" >>} }
    \cup { OtherMessage(r) : r \in {"system", "user", "other"} }
    \cup { ListMessage(r, << TextPart(<< "a" >>), TextPart(<< >>),
                          TextLikePart(<< "b" >>) >>) :
             r \in {"system", "other"} }
    \cup { ListMessage("user", ps) :
             ps \in { << >>,
                      << TextPart(<< >>) >>,
                      << TextLikePart(<< "b" >>) >>,
                      << TextPart(<< "a" >>), ImagePart, TextPart(<< >>),
                         TextLikePart(<< "b" >>) >>,
                      << Image(UrlU, DataD, "low"), TextPart(<< "a" >>) >>,
                      << TextPart(<< "a" >>), Image(<< >>, DataD, "") >> } }
    \cup { Message("assistant", "str", t, << >>, tcs, NoCall) :
             t \in {<< >>, << "o", "k" >>}, tcs \in PromptToolCallLists }
    \cup { Message("tool", "str", t, << >>, << >>, c) :
             t \in {<< >>, << "o", "u", "t" >>}, c \in {"c1", NoCall} }
    \cup { Message("tool", "other", << >>, << >>, << >>, "c1") }

Gpt5High == Gpt5 \o << "-" >> \o High
EncodeModels ==
    { Gpt5,
      Gpt5High,
      Gpt5 \o << "-", "H", "i", "G", "H" >>,
      Gpt5 \o << "-", "m", "e", "d", "i", "u", "m", "-", "x", "h", "i", "g", "h" >>,
      Gpt5High \o << "-" >> \o High \o << "-" >> \o High,
      Gpt5High \o << "x" >>,
      Gpt5 \o High,
      High }
XHigh == << "x" >> \o High
TierDicts ==
    { EmptyDict }
    \cup { "performance_tier" :> t :
             t \in { << >>, Auto, XHigh, << " ", "H", "i", "g", "h", "\n" >>,
                     << "-", "x" >>, << "_", "x" >> } }
CustomTierDicts ==
    { EmptyDict }
    \cup { "custom_performance_tier" :> t :
             t \in { << >>, << " ", " " >>, Auto, << "-" >>,
                     << "-", "-", "F", "a", "s", "t" >>,
                     << "v", ".", "1", "_", "a", "-", "b" >>,
                     << ".", "x" >>, << "a", " ", "b" >>,
                     Repeat("a", TierValueMaxRest + 1),
                     Repeat("a", TierValueMaxRest + 2) } }

ParameterDicts ==
    { a @@ b @@ c @@ d @@ e @@ f :
        a \in { EmptyDict, "temperature" :> 1 },
        b \in { EmptyDict, "top_p" :> 1 },
        c \in { EmptyDict, "max_tokens" :> 5, "max_tokens" :> NoneInt },
        d \in { EmptyDict, "max_completion_tokens" :> 9 },
        e \in { EmptyDict, "reasoning_effort" :> "",
                "reasoning_effort" :> NoCall, "reasoning_effort" :> "high" },
        f \in { EmptyDict, "verbosity" :> "", "verbosity" :> "low" } }
StreamDicts ==
    { EmptyDict, "enable_stream" :> FALSE, "enable_stream" :> TRUE }
StopLists == { << >>, << << "E", "N", "D" >> >> }

ToolSlice ==
    /\ tools \in SeqsUpTo(EncodeTools, MaxTools)
    /\ prompt_messages = << MsgHi >>
    /\ model = Gpt5
    /\ model_parameters = EmptyDict
    /\ stop = << >>
    /\ stream = TRUE
MessageSlice ==
    /\ prompt_messages \in SeqsUpTo(EncodeMessages, MaxMessages)
    /\ tools = << >>
    /\ model = Gpt5
    /\ model_parameters = EmptyDict
    /\ stop = << >>
    /\ stream = TRUE
TierSlice ==
    /\ model \in EncodeModels
    /\ model_parameters \in { t @@ c : t \in TierDicts, c \in CustomTierDicts }
    /\ prompt_messages = << MsgHi >>
    /\ tools = << >>
    /\ stop = << >>
    /\ stream = TRUE
ParameterSlice ==
    /\ model_parameters \in { p @@ s : p \in ParameterDicts, s \in StreamDicts }
    /\ stream \in BOOLEAN
    /\ stop \in StopLists
    /\ tools \in { << >>, << ToolF >>, << ToolF, ToolG >> }
    /\ prompt_messages = << MsgHi >>
    /\ model = Gpt5

InitEncode ==
    /\ pc = "encode"
    /\ user \in { NoCall, "u1" }
    /\ \/ ToolSlice
       \/ MessageSlice
       \/ TierSlice
       \/ ParameterSlice
    /\ Fresh

\* Lines 57-72 of _invoke: the stream switch, the model name, the payload.
SendRequest ==
    /\ pc = "encode"
    /\ request' = BuildRequest(model, prompt_messages, model_parameters,
                                tools, stop, user, stream)
    /\ pc' = "encoded"
    /\ UNCHANGED << inputs, response, assembler, n_events, result, error,
                    last_done >>

NextEncode == SendRequest

SpecEncode == InitEncode /\ [][NextEncode]_vars

\* ------------------------------------------------ one-shot decoding on its own
\* A one-shot turn of a plain-string user message, answered by responses of
\* every shape and by responses that echo the message (the fourth
\* specification).
MaxItems == 2
MaxText == 2

DecodeItems ==
    { MessageItem(<< >>),
      MessageItem(<< ContentPart("output_text", << "a" >>) >>),
      MessageItem(<< ContentPart("output_text", << "a" >>),
                     ContentPart("refusal", << "r" >>),
                     ContentPart("text", << >>),
                     ContentPart("input_text", << "b" >>) >>),
      TextItem("output_text", << "c" >>),
      TextItem("text", << >>),
      TextItem("text", << "d" >>),
      TextItem("input_text", << "e" >>),
      TextItem("reasoning", << "x" >>),
      CallItem("f", "str", << "j" >>, "none", "c1", "i1"),
      CallItem("f", "str", << >>, "none", "", "i1"),
      CallItem("", "str", << "j" >>, "none", "c2", "i2"),
      CallItem("f", "dict", << >>, "obj", "", ""),
      CallItem("g", "other", << >>, "none", "c2", "") }
DecodeResponses ==
    { OneShot(ot[1], ot[2], out, NoUsage) :
        ot \in { << FALSE, << >> >>, << TRUE, << >> >>, << TRUE, << "o", "k" >> >> },
        out \in SeqsUpTo(DecodeItems, MaxItems) }

\* The responses whose only output item is an assistant message with the
\* single text part t; the denormalized field, when there is one, is the
\* concatenation of the output_text parts.
EchoResponses(t) ==
    { OneShot(FALSE, << >>, << MessageItem(<< ContentPart(ty, t) >>) >>, NoUsage) :
        ty \in {"output_text", "text"} }
    \cup { OneShot(TRUE, IF ty = "output_text" THEN t ELSE << >>,
                   << MessageItem(<< ContentPart(ty, t) >>) >>, NoUsage) :
             ty \in {"output_text", "text"} }

RoundTripTexts == SeqsUpTo({"a", " ", "\n"}, MaxText)

InitDecode ==
    /\ pc = "start"
    /\ stream = FALSE
    /\ prompt_messages \in { << StrMessage("user", t) >> : t \in RoundTripTexts }
    /\ tools = << >>
    /\ model = Gpt5
    /\ model_parameters = EmptyDict
    /\ stop = << >>
    /\ user = NoCall
    /\ Fresh

NextDecode ==
    \/ \E received \in DecodeResponses : InvokeOneShot(received)
    \/ \E received \in EchoResponses(prompt_messages[1].text) :
          InvokeOneShot(received)

SpecDecode == InitDecode /\ [][NextDecode]_vars

\* ------------------------------------------------- remote model discovery
MaxPredefined == 2
MaxRemote == 4

Templates ==
    { Template(Flagship, "a"), Template(Flagship, "b"),
      Template("gpt-5.2-mini", "c") }
RemoteIdValues == { "", NoCall, "m1", "m2" }
RemoteRecords == { [id |-> x] : x \in RemoteIdValues }
Listings ==
    { Listing(k, items) :
        k \in {"page", "no_data", "list"},
        items \in SeqsUpTo(RemoteRecords, MaxRemote) }

InitModels ==
    /\ pc = "discover"
    /\ stream = FALSE
    /\ prompt_messages = << >>
    /\ tools = << >>
    /\ model = Gpt5
    /\ model_parameters = EmptyDict
    /\ stop = << >>
    /\ user = NoCall
    /\ predefined_models \in SeqsUpTo(Templates, MaxPredefined)
    /\ listed_models \in Listings
    /\ entities = << >>
    /\ FreshTurn

turn == << stream, prompt_messages, tools, model, model_parameters, stop, user, request, response, assembler, n_events, result, last_done >>

\* _pick_template_model: no predefined schema, ValueError leaves unmapped.
RemoteModelsNoTemplate ==
    /\ pc = "discover"
    /\ predefined_models = << >>
    /\ error' = RawError("ValueError")
    /\ pc' = "raised"
    /\ UNCHANGED << turn, catalogue >>

\* client.models.list() raises: the fault is mapped and re-raised.
RemoteModelsFault ==
    /\ pc = "discover"
    /\ predefined_models # << >>
    /\ \E ex \in ExceptionClasses :
          /\ error' = MappedError(ex)
          /\ pc' = "raised"
    /\ UNCHANGED << turn, catalogue >>

RemoteModels ==
    /\ pc = "discover"
    /\ predefined_models # << >>
    /\ entities' = CollectEntities(RemoteItems(listed_models), {},
                                   PickTemplateModel(predefined_models))
    /\ pc' = "listed"
    /\ UNCHANGED << turn, predefined_models, listed_models, error >>

NextModels ==
    \/ RemoteModelsNoTemplate
    \/ RemoteModelsFault
    \/ RemoteModels

SpecModels == InitModels /\ [][NextModels]_vars

Next ==
    \/ InvokeFault
    \/ InvokeStream
    \/ \E received \in OneShotResponses : InvokeOneShot(received)
    \/ \E e \in TextDeltaEvents : OutputTextDelta(e)
    \/ \E e \in OutputItemAddedEvents : OutputItemAdded(e)
    \/ \E e \in ArgumentsDeltaEvents : FunctionCallArgumentsDelta(e)
    \/ \E e \in ArgumentsDoneEvents : FunctionCallArgumentsDone(e)
    \/ \E e \in OutputItemDoneEvents : OutputItemDone(e)
    \/ \E e \in CompletedEvents : ResponseCompleted(e)
    \/ \E e \in OtherEvents : OtherEvent(e)
    \/ StreamFault
    \/ EndOfStream

Spec == Init /\ [][Next]_vars

\* ===================================================================== claims
LastChunk == chunks[Len(chunks)]
LastToolCall == tool_calls[Len(tool_calls)]

\* C1: the chunks emitted so far carry the indices 0, 1, 2, ... in emission
\* order; no chunk carries a finish reason before the stream is exhausted, and
\* once it is, exactly the last chunk carries one and its delta text is empty
\* (also when no other chunk was emitted).
C1_IndicesAndSingleFinish ==
    /\ \A i \in 1..Len(chunks) : chunks[i].index = i - 1
    /\ pc # "done" => \A i \in 1..Len(chunks) : chunks[i].finish_reason = ""
    /\ pc = "done" =>
          /\ Len(chunks) >= 1
          /\ LastChunk.finish_reason # ""
          /\ LastChunk.content = << >>
          /\ \A i \in 1..(Len(chunks) - 1) : chunks[i].finish_reason = ""

\* C1 witness: an exhausted stream that emitted a text chunk, a tool-call
\* chunk and the final chunk.
C1_Witness ==
    /\ pc = "done"
    /\ Len(chunks) = 3
    /\ full_text # << >>
    /\ tool_calls # << >>

\* The empty turn of C1: a stream without events emits the final chunk alone.
C1_WitnessEmptyTurn == pc = "done" /\ Len(chunks) = 1 /\ n_events = 0

\* C2 (as claimed): when output_item.done finalizes a pending call whose last
\* arguments event was an arguments.done carrying the string S, the finalized
\* tool call's arguments are S.
C2_DoneStringIsFinal ==
    [][\A e \in OutputItemDoneEvents :
          ( /\ OutputItemDone(e)
            /\ e.item.present /\ e.item.type = "function_call" /\ e.item.name # ""
            /\ IsPending(e.item.call_id, pending_tool_calls)
            /\ last_done[e.item.call_id].set )
          => LastToolCall'.arguments = last_done[e.item.call_id].arguments]_vars

\* C2 (amended): in that case the finalized arguments are S when S is not
\* empty; when S is the empty string they are the item's own arguments field,
\* or "{}" when that is empty too.
C2_NonEmptyDoneStringIsFinal ==
    [][\A e \in OutputItemDoneEvents :
          ( /\ OutputItemDone(e)
            /\ e.item.present /\ e.item.type = "function_call" /\ e.item.name # ""
            /\ IsPending(e.item.call_id, pending_tool_calls)
            /\ last_done[e.item.call_id].set )
          => LET S == last_done[e.item.call_id].arguments
             IN  LastToolCall'.arguments =
                    IF S # << >> THEN S
                    ELSE IF e.item.arguments # << >> THEN e.item.arguments
                    ELSE << "{", "}" >>]_vars

\* C2 witness: call c1 was finalized with the string of an arguments.done
\* event that replaced a non-empty buffer of deltas, although the item carried
\* arguments of its own.
C2_Witness ==
    /\ last_done["c1"].set
    /\ last_done["c1"].arguments = << "z" >>
    /\ last_done["c1"].replaced # << >>
    /\ "c1" \notin DOMAIN pending_tool_calls
    /\ tool_calls # << >>
    /\ LastToolCall.id = "c1"
    /\ LastToolCall.arguments = << "z" >>

AllWhitespace(s) == \A i \in 1..Len(s) : s[i] \in {" ", "\n"}

\* C3: at end of stream the final chunk's finish reason is "tool_calls" exactly
\* when a tool call was finalized and the accumulated text is empty or only
\* whitespace, and "stop" otherwise.
C3_FinishReason ==
    pc = "done" =>
        LastChunk.finish_reason =
            IF Len(tool_calls) >= 1 /\ AllWhitespace(full_text)
            THEN "tool_calls" ELSE "stop"

\* C3 witness: a finalized tool call next to whitespace-only text.
C3_Witness ==
    /\ pc = "done"
    /\ Len(tool_calls) >= 1
    /\ full_text = << " " >>
    /\ LastChunk.finish_reason = "tool_calls"

\* What the item of an output_item.done event says about a finalized call.
Finalizes(e) ==
    e.item.present /\ e.item.type = "function_call" /\ e.item.name # ""

KnownPending(e) ==
    e.item.call_id # "" /\ e.item.call_id \in DOMAIN pending_tool_calls

\* C4 (as claimed): the call finalized by output_item.done is built from the
\* buffered arguments whenever the item's call id is a pending call, whatever
\* the buffer holds, otherwise from the item's own arguments field, and from
\* "{}" when neither applies (an empty string is turned into "{}" when the
\* tool call is built).
C4_BufferWheneverKnown ==
    [][\A e \in OutputItemDoneEvents :
          (OutputItemDone(e) /\ Finalizes(e))
          => LET effective ==
                    IF KnownPending(e)
                    THEN pending_tool_calls[e.item.call_id].arguments
                    ELSE IF e.item.arguments # << >> THEN e.item.arguments
                    ELSE << "{", "}" >>
             IN  LastToolCall'.arguments =
                    IF effective # << >> THEN effective ELSE << "{", "}" >>]_vars

\* C4 (amended): the finalized call's arguments are the buffered arguments
\* when the item's call id is a pending call and its buffer is not empty,
\* otherwise the item's own arguments field when that is not empty, and "{}"
\* otherwise.
C4_BufferWhenKnownAndNonEmpty ==
    [][\A e \in OutputItemDoneEvents :
          (OutputItemDone(e) /\ Finalizes(e))
          => LastToolCall'.arguments =
                IF KnownPending(e)
                   /\ pending_tool_calls[e.item.call_id].arguments # << >>
                THEN pending_tool_calls[e.item.call_id].arguments
                ELSE IF e.item.arguments # << >> THEN e.item.arguments
                ELSE << "{", "}" >>]_vars

\* C4 witness: two calls were finalized in one stream: a pending one from its
\* buffered delta, and one whose id was not pending from the item's arguments.
C4_Witness ==
    /\ Len(tool_calls) = 2
    /\ tool_calls[1].id = "c1"
    /\ tool_calls[1].arguments = << "x" >>
    /\ tool_calls[2].id = "c2"
    /\ tool_calls[2].arguments = << "w" >>
    /\ ~last_done["c1"].set

RECURSIVE ChunkTexts(_)
ChunkTexts(cs) ==
    IF cs = << >> THEN << >> ELSE Head(cs).content \o ChunkTexts(Tail(cs))

RECURSIVE ChunkToolCalls(_)
ChunkToolCalls(cs) ==
    IF cs = << >> THEN << >> ELSE Head(cs).tool_calls \o ChunkToolCalls(Tail(cs))

\* C5: read in index order, the chunks reconstruct the turn: each chunk carries
\* at most one tool call, the chunks' texts concatenate to the accumulated text
\* and their tool calls, in order, are the finalized list (during the stream
\* and at its end); and a text-delta event yields exactly one chunk, carrying
\* exactly its delta at the current index, when the delta is not empty and no
\* chunk when it is.
C5_ChunksReconstructTurn ==
    /\ [](/\ \A i \in 1..Len(chunks) : Len(chunks[i].tool_calls) <= 1
          /\ ChunkTexts(chunks) = full_text
          /\ ChunkToolCalls(chunks) = tool_calls)
    /\ [][\A e \in TextDeltaEvents :
             OutputTextDelta(e)
             => IF e.delta # << >>
                THEN /\ Len(chunks') = Len(chunks) + 1
                     /\ chunks'[Len(chunks')].content = e.delta
                     /\ chunks'[Len(chunks')].tool_calls = << >>
                     /\ chunks'[Len(chunks')].index = index
                     /\ SubSeq(chunks', 1, Len(chunks)) = chunks
                ELSE chunks' = chunks]_vars

\* C5 witness: an exhausted stream with two text chunks and a tool-call chunk
\* between them.
C5_Witness ==
    /\ pc = "done"
    /\ Len(chunks) = 4
    /\ chunks[1].content # << >>
    /\ Len(chunks[2].tool_calls) = 1
    /\ chunks[3].content # << >>

\* C6: an arguments-delta event appends its delta to the buffer of exactly the
\* pending call it resolves to (the event's own id when it has one, otherwise
\* the active call), leaves every other buffer, the set of pending calls and
\* their names unchanged, changes no buffer when the resolved id is no pending
\* call, and neither emits a chunk nor advances the index.
C6_DeltaAppendsToResolvedCall ==
    [][\A e \in ArgumentsDeltaEvents :
          FunctionCallArgumentsDelta(e)
          => LET target == IF e.item_id # "" THEN e.item_id ELSE current_tool_call
             IN  /\ DOMAIN pending_tool_calls' = DOMAIN pending_tool_calls
                 /\ \A c \in DOMAIN pending_tool_calls :
                       /\ pending_tool_calls'[c].name = pending_tool_calls[c].name
                       /\ pending_tool_calls'[c].arguments =
                             IF c = target
                             THEN pending_tool_calls[c].arguments \o e.delta
                             ELSE pending_tool_calls[c].arguments
                 /\ chunks' = chunks
                 /\ index' = index
                 /\ tool_calls' = tool_calls]_vars

\* C6 witness: two calls are pending; the one announced first, which is not
\* the active one, holds a delta addressed to it by id, and the active one
\* holds a different delta.
C6_Witness ==
    /\ DOMAIN pending_tool_calls = {"c1", "c2"}
    /\ current_tool_call = "c2"
    /\ pending_tool_calls["c1"].arguments = << "x" >>
    /\ pending_tool_calls["c2"].arguments = << "y" >>
    /\ chunks = << >>

NonZero(v) == v # NoneInt /\ v # 0

\* C7: at end of stream each count of the final chunk's usage is decided on
\* its own: it is a remote value (under one of its two field names) that is
\* present and not zero when there is one, and the local estimate otherwise;
\* with no captured terminal response both are local estimates.
C7_UsagePerCount ==
    pc = "done" =>
        LET u == final_response.usage
            remote == final_response.present /\ u.present
            prompts == IF remote
                       THEN {v \in {u.input_tokens, u.prompt_tokens} : NonZero(v)}
                       ELSE {}
            completions == IF remote
                           THEN {v \in {u.output_tokens, u.completion_tokens} :
                                    NonZero(v)}
                           ELSE {}
            local_prompt == GetNumTokens(prompt_messages, tools)
            local_completion ==
                GetNumTokens(<< AssistantMessage(full_text, tool_calls) >>, << >>)
        IN  /\ LastChunk.has_usage
            /\ IF prompts # {}
               THEN LastChunk.usage.prompt_tokens \in prompts
               ELSE LastChunk.usage.prompt_tokens = local_prompt
            /\ IF completions # {}
               THEN LastChunk.usage.completion_tokens \in completions
               ELSE LastChunk.usage.completion_tokens = local_completion

\* C7 witness: the remote side reported zero prompt counts and a completion
\* count, so the prompt count is the local estimate and the completion count
\* the remote one, and the two differ from each other's source.
C7_Witness ==
    /\ pc = "done"
    /\ final_response = Response(Usage(0, 0, 21, NoneInt))
    /\ full_text # << >>
    /\ LastChunk.usage.completion_tokens = 21
    /\ LastChunk.usage.prompt_tokens = GetNumTokens(prompt_messages, tools)
    /\ LastChunk.usage.prompt_tokens > 0

\* The prompt count is locally estimated: the remote side reported no prompt
\* count that is present and not zero.
PromptIsLocal ==
    ~( /\ final_response.present
       /\ final_response.usage.present
       /\ \/ NonZero(final_response.usage.input_tokens)
          \/ NonZero(final_response.usage.prompt_tokens) )

\* The extracted texts of the prompt messages that have any, joined by "\n".
PromptText == Join(<< "\n" >>, NonEmptyOnly(MessageTexts(prompt_messages)))

RECURSIVE ToolCountsFrom(_)
ToolCountsFrom(k) ==
    IF k > Len(tools) THEN 0
    ELSE NumTokens(tools[k].name)
         + (IF tools[k].has_description THEN NumTokens(tools[k].description) ELSE 0)
         + NumTokens(JsonDumps(tools[k].parameters))
         + ToolCountsFrom(k + 1)

\* C8 (as claimed): a locally estimated prompt count is, for every prompt and
\* every tool list, the token count of the prompt text plus the token counts
\* of every tool's name, description and serialized parameter schema.
C8_PromptCountsTextAndTools ==
    (pc = "usage_done" /\ PromptIsLocal)
    => result.usage.prompt_tokens = NumTokens(PromptText) + ToolCountsFrom(1)

\* C8 (amended): that holds when the prompt has extractable text; when it has
\* none the locally estimated prompt count is 0, whatever the tools.
C8_PromptCountsToolsOnlyWithText ==
    (pc = "usage_done" /\ PromptIsLocal)
    => result.usage.prompt_tokens =
          IF PromptText = << >> THEN 0
          ELSE NumTokens(PromptText) + ToolCountsFrom(1)

\* C8 witness: two messages with text and two tools, no remote usage: 3 tokens
\* of text, 12 of the first tool and 2 of the second.
C8_Witness ==
    /\ pc = "usage_done"
    /\ prompt_messages = << MsgSys, MsgParts >>
    /\ tools = << ToolF, ToolG >>
    /\ ~final_response.present
    /\ result.usage.prompt_tokens = 17

SixKinds ==
    { "InvokeConnectionError", "InvokeServerUnavailableError",
      "InvokeRateLimitError", "InvokeAuthorizationError",
      "InvokeBadRequestError", "InvokeError" }

\* C9: every fault of a turn, raised when the request is issued or while the
\* stream's events are delivered, reaches the caller as one of the six kinds.
C9_EveryFaultIsMapped == pc = "raised" => error.kind \in SixKinds

\* The kind the classification table of the design assigns to each category.
ExpectedKind(ex) ==
    CASE ex \in {"APIConnectionError", "APITimeoutError"} -> "InvokeConnectionError"
      [] ex = "InternalServerError" -> "InvokeServerUnavailableError"
      [] ex = "RateLimitError" -> "InvokeRateLimitError"
      [] ex \in {"AuthenticationError", "PermissionDeniedError"} ->
            "InvokeAuthorizationError"
      [] ex \in {"BadRequestError", "NotFoundError", "UnprocessableEntityError",
                 "ConflictError", "APIStatusError", "APIResponseValidationError",
                 "APIError"} -> "InvokeBadRequestError"
      [] OTHER -> "InvokeError"

\* C10: a fault raised when the request is issued is re-raised as the kind of
\* the first table entry it is an instance of: connection failure and timeout
\* as Connection, internal server fault as ServerUnavailable, rate limiting as
\* RateLimit, authentication and permission as Authorization, every other API
\* fault as BadRequest, and anything else as the generic InvokeError.
C10_ClassifyFirstMatch ==
    (pc = "raised" /\ error.kind # "Raw") => error.kind = ExpectedKind(error.ex)

\* C10 witness: a timeout, which is an instance of two table entries (the
\* connection entry and, as an API fault, the bad-request entry), was raised.
C10_Witness ==
    /\ pc = "raised"
    /\ error.ex = "APITimeoutError"
    /\ error.kind = "InvokeConnectionError"

\* ------------------------------------------------------------ tool encoding
\* The JSON objects among the encoded parameters values.
JsonObjects == {"empty", "obj", EmptySchema}

\* C11: encoding a tool definition never fails and the encoded parameters are
\* always a JSON object: a structured object passes through, a JSON string
\* that parses to an object is replaced by that object, and every other input
\* (a non-JSON string, a JSON string that parses to a list or a number, a
\* value that is neither a string nor an object) becomes the empty-object
\* schema.
C11_ParametersAlwaysObject ==
    (pc = "encoded" /\ tools # << >>) =>
        /\ "tools" \in DOMAIN request.payload
        /\ Len(request.payload["tools"]) = Len(tools)
        /\ \A i \in DOMAIN tools :
              LET given == tools[i].parameters
                  encoded == request.payload["tools"][i].parameters
              IN  /\ encoded \in JsonObjects
                  /\ encoded =
                        IF given \in {"empty", "obj"} THEN given
                        ELSE IF given = "json_obj" THEN "obj"
                        ELSE EmptySchema

\* ------------------------------------------------------- message encoding
\* The parts the user rule is said to emit for a content list: one
\* input_text per non-empty Text part, one input_image per Image part.
RECURSIVE NonEmptyTextAndImageParts(_)
NonEmptyTextAndImageParts(ps) ==
    IF ps = << >> THEN << >>
    ELSE LET item == Head(ps)
             rest == NonEmptyTextAndImageParts(Tail(ps))
         IN  IF item.ptype = "text" /\ item.data # << >>
             THEN << ContentPartOf("input_text", item.data, << >>, "") >> \o rest
             ELSE IF item.ptype = "image"
             THEN << ContentPartOf("input_image", << >>,
                        IF item.url # << >> THEN item.url ELSE item.data,
                        item.detail) >> \o rest
             ELSE rest

RECURSIVE UserEntriesWithoutEmptyText(_)
UserEntriesWithoutEmptyText(ms) ==
    IF ms = << >> THEN << >>
    ELSE (IF NonEmptyTextAndImageParts(Head(ms).parts) = << >> THEN << >>
          ELSE << PartsEntry("user", NonEmptyTextAndImageParts(Head(ms).parts)) >>)
         \o UserEntriesWithoutEmptyText(Tail(ms))

\* C12: a user message with multi-part content is encoded as its parts in
\* the original order, one input_text per non-empty Text part and one
\* input_image per Image part (the URL when there is one, else the inline
\* data); empty Text parts are dropped, and a user message that yields no
\* part is omitted.
C12_UserPartsDropEmptyText ==
    (/\ pc = "encoded"
     /\ \A i \in DOMAIN prompt_messages :
           prompt_messages[i].role = "user" /\ prompt_messages[i].kind # "str")
    => request.payload["input"] = UserEntriesWithoutEmptyText(prompt_messages)

\* The entries one message contributes, per message class.
RECURSIVE FunctionCallEntries(_)
FunctionCallEntries(tcs) ==
    IF tcs = << >> THEN << >>
    ELSE LET tc == Head(tcs)
         IN  << FunctionCallEntry(
                    IF tc.id \in {"", NoCall} THEN tc.name ELSE tc.id,
                    tc.name,
                    IF tc.arguments = << >> THEN << "{", "}" >> ELSE tc.arguments) >>
             \o FunctionCallEntries(Tail(tcs))

EntriesOf(message) ==
    LET text == ExtractText(message)
        one(role) == IF text = << >> THEN << >> ELSE << TextEntry(role, text) >>
    IN  CASE message.role = "system" -> one("developer")
          [] message.role = "assistant" ->
                one("assistant") \o FunctionCallEntries(message.tool_calls)
          [] message.role = "tool" ->
                << FunctionCallOutputEntry(message.tool_call_id, text) >>
          [] message.role = "user" ->
                IF message.kind = "str" THEN << TextEntry("user", message.text) >>
                ELSE IF ConvertContentItems(message.parts) = << >> THEN << >>
                ELSE << PartsEntry("user", ConvertContentItems(message.parts)) >>
          [] OTHER -> one("user")

RECURSIVE EntriesInMessageOrder(_)
EntriesInMessageOrder(ms) ==
    IF ms = << >> THEN << >>
    ELSE EntriesOf(Head(ms)) \o EntriesInMessageOrder(Tail(ms))

TierParameter == DictGet(model_parameters, "performance_tier", Auto)
CustomTierParameter ==
    DictGet(model_parameters, "custom_performance_tier", << >>)

\* The effective tier: the custom string when it is non-empty after
\* normalisation (trimmed, lowercased, leading hyphens removed), otherwise
\* the enumerated choice (trimmed, lowercased, "auto" when empty).
EffectiveTier ==
    LET custom == LStripHyphen(Lower(Strip(CustomTierParameter)))
    IN  IF custom # << >> THEN custom
        ELSE Lower(Strip(IF TierParameter = << >> THEN Auto ELSE TierParameter))

EndsWith(s, suffix) ==
    /\ Len(suffix) <= Len(s)
    /\ SubSeq(s, Len(s) - Len(suffix) + 1, Len(s)) = suffix

\* The model name without its trailing tier suffix: two tier words when the
\* name ends with two, else one when it ends with one.
WithoutTierSuffix(name) ==
    LET ending == { s \in TierSuffixes : EndsWith(Lower(name), s) }
    IN  IF ending = {} THEN name
        ELSE LET longest == CHOOSE s \in ending : \A t \in ending : Len(t) <= Len(s)
             IN  SubSeq(name, 1, Len(name) - Len(longest))

\* 1 to 32 characters, each a lowercase letter, a digit, '.', '_' or '-'.
InTierAlphabet(tier) ==
    /\ Len(tier) \in 1..(TierValueMaxRest + 1)
    /\ \A i \in DOMAIN tier : tier[i] \in TierValueRest

ResolvedAs(accepted) ==
    IF EffectiveTier \in { << >>, Auto } \/ ~accepted
    THEN model
    ELSE WithoutTierSuffix(model) \o << "-" >> \o EffectiveTier

\* C14 as stated: the effective tier is the custom string when non-empty
\* after normalisation, else the enumerated choice; an effective tier that
\* is empty, "auto" or outside the pattern (lowercase alphanumerics, '.',
\* '_', '-', 1 to 32 characters) leaves the model name unchanged; otherwise
\* the trailing tier suffix (one or two of medium/high/xhigh, any case) is
\* replaced by the new tier.
C14_TierOfAlphabetIsAppended ==
    pc = "encoded" => request.model = ResolvedAs(InTierAlphabet(EffectiveTier))

\* C14, amended: as above, where the pattern also requires the first
\* character of the tier to be a lowercase letter or a digit.
C14_TierStartingAlphanumericIsAppended ==
    pc = "encoded" =>
        request.model =
            ResolvedAs(/\ InTierAlphabet(EffectiveTier)
                       /\ EffectiveTier[1] \in TierValueFirst)

C14_Witness ==
    /\ pc = "encoded"
    /\ model = Gpt5High
    /\ CustomTierParameter = << >>
    /\ TierParameter = XHigh
    /\ request.model = Gpt5 \o << "-" >> \o XHigh

C14_WitnessRejected ==
    /\ pc = "encoded"
    /\ model = Gpt5High
    /\ CustomTierParameter = << ".", "x" >>
    /\ TierParameter = XHigh
    /\ request.model = Gpt5High

\* ---------------------------------------------------------------- tool calls
\* The argument strings of the model that are JSON texts: every other one
\* holds a bare letter (x, y, z, w, j) and is malformed.
JsonTexts == { << "{", "}" >>, JsonDumps("obj") }

\* What the decoder is said to make of a function_call item.
ClaimedArguments(item) ==
    CASE item.args_kind = "dict" -> JsonDumps(item.dict)
      [] item.args_kind = "str" /\ item.arguments \in JsonTexts -> item.arguments
      [] OTHER -> << "{", "}" >>

RECURSIVE ClaimedToolCalls(_)
ClaimedToolCalls(items) ==
    IF items = << >> THEN << >>
    ELSE LET item == Head(items)
         IN  (IF item.type = "function_call" /\ item.name # ""
              THEN << [id |-> IF item.call_id # "" THEN item.call_id
                              ELSE IF item.id # "" THEN item.id
                              ELSE item.name,
                       name |-> item.name,
                       arguments |-> ClaimedArguments(item)] >>
              ELSE << >>)
             \o ClaimedToolCalls(Tail(items))

\* C15: every ToolCall of a chunk or of a one-shot result has a non-empty
\* function name, an id that is the remote call id when there is one and
\* otherwise a fallback (the item id in the decoder, finally the function
\* name), and an arguments string that is "{}" whenever the source arguments
\* are absent, empty or not valid JSON; producing it never raises.
C15_ToolCallsWellFormed ==
    /\ \A calls \in { tool_calls, ChunkToolCalls(chunks), result.tool_calls } :
          \A i \in DOMAIN calls :
             /\ calls[i].name # ""
             /\ calls[i].id \notin {"", NoCall}
             /\ calls[i].arguments \in JsonTexts
    /\ pc = "returned" => result.tool_calls = ClaimedToolCalls(response.output)

\* ------------------------------------------------------------ one-shot text
\* The texts of the text-like parts of 'message' items and of the top-level
\* text-like items, in output-item order; nothing for any other item.
RECURSIVE PartTextsInOrder(_)
PartTextsInOrder(cs) ==
    IF cs = << >> THEN << >>
    ELSE (IF Head(cs).type \in {"output_text", "text", "input_text"}
          THEN Head(cs).text ELSE << >>)
         \o PartTextsInOrder(Tail(cs))

RECURSIVE OutputTextInOrder(_)
OutputTextInOrder(items) ==
    IF items = << >> THEN << >>
    ELSE (CASE Head(items).type = "message" -> PartTextsInOrder(Head(items).content)
            [] Head(items).type \in {"output_text", "text"} -> Head(items).text
            [] OTHER -> << >>)
         \o OutputTextInOrder(Tail(items))

\* C16 as stated: the decoded text is the response's denormalized full-text
\* field when the response provides that field, and otherwise the
\* concatenation, in output-item order and without separator, of the texts of
\* the text-like parts of 'message' items and of the top-level text-like
\* items; other items contribute no text.
C16_TextFromProvidedField ==
    pc = "returned" =>
        result.content =
            IF response.has_output_text THEN response.output_text
            ELSE OutputTextInOrder(response.output)

\* C16, amended: the field is taken when it is provided and not empty.
C16_TextFromNonEmptyField ==
    pc = "returned" =>
        result.content =
            IF response.has_output_text /\ response.output_text # << >>
            THEN response.output_text
            ELSE OutputTextInOrder(response.output)

C16_Witness ==
    /\ pc = "returned"
    /\ ~response.has_output_text
    /\ Len(response.output) = 2
    /\ response.output[1].type = "message"
    /\ Len(response.output[1].content) = 4
    /\ response.output[2] = TextItem("output_text", << "c" >>)
    /\ result.content = << "a", "b", "c" >>

C16_WitnessField ==
    /\ pc = "returned"
    /\ response.has_output_text
    /\ response.output_text = << "o", "k" >>
    /\ OutputTextInOrder(response.output) = << "a", "d" >>
    /\ result.content = << "o", "k" >>

\* --------------------------------------------------------------- round trip
\* The text of the turn's single plain-string user message.
SentText == prompt_messages[1].text

\* C17: for every text t, a single user message with the plain-string
\* content t is encoded as an input list whose only entry carries t
\* unchanged, and a one-shot response whose only output item is an assistant
\* message with the single text part t is decoded into a result whose text
\* is exactly t and that has no tool call.
C17_RoundTrip ==
    (pc = "returned" /\ response \in EchoResponses(SentText)) =>
        /\ Len(request.payload["input"]) = 1
        /\ request.payload["input"][1].role = "user"
        /\ request.payload["input"][1].entry = "text"
        /\ request.payload["input"][1].content = SentText
        /\ result.content = SentText
        /\ result.tool_calls = << >>

C17_Witness ==
    /\ pc = "returned"
    /\ SentText = << " ", "a" >>
    /\ response \in EchoResponses(SentText)
    /\ ~response.has_output_text
    /\ request.payload["input"] = << TextEntry("user", << " ", "a" >>) >>
    /\ result.content = << " ", "a" >>

\* ------------------------------------------------------------ payload table
Sent(key) == key \in DOMAIN request.payload
Given(key) == key \in DOMAIN model_parameters
GivenNonEmpty(key) ==
    Given(key) /\ model_parameters[key] \notin {"", NoCall}

\* C18: the request payload never has a 'user' field; 'tools' and
\* tool_choice = "auto" are there exactly when the tool list is not empty,
\* with one tool spec per tool definition in order; the max-output-token
\* field takes the first of max_tokens, max_completion_tokens that is
\* present; reasoning effort and text verbosity are there (nested) only when
\* given and not empty; stop is there only when the stop list is not empty.
C18_PayloadTable ==
    pc = "encoded" =>
        /\ ~Sent("user")
        /\ Sent("tools") <=> tools # << >>
        /\ Sent("tool_choice") <=> tools # << >>
        /\ tools # << >> =>
              /\ request.payload["tool_choice"] = "auto"
              /\ Len(request.payload["tools"]) = Len(tools)
              /\ \A i \in DOMAIN tools :
                    /\ request.payload["tools"][i].type = "function"
                    /\ request.payload["tools"][i].name = tools[i].name
        /\ Sent("max_output_tokens")
              <=> (Given("max_tokens") \/ Given("max_completion_tokens"))
        /\ Given("max_tokens") =>
              request.payload["max_output_tokens"] = model_parameters["max_tokens"]
        /\ (~Given("max_tokens") /\ Given("max_completion_tokens")) =>
              request.payload["max_output_tokens"]
                 = model_parameters["max_completion_tokens"]
        /\ Sent("reasoning") <=> GivenNonEmpty("reasoning_effort")
        /\ Sent("reasoning") =>
              request.payload["reasoning"]
                 = [effort |-> model_parameters["reasoning_effort"]]
        /\ Sent("text") <=> GivenNonEmpty("verbosity")
        /\ Sent("text") =>
              request.payload["text"]
                 = [verbosity |-> model_parameters["verbosity"]]
        /\ Sent("stop") <=> stop # << >>
        /\ Sent("stop") => request.payload["stop"] = stop

C18_Witness ==
    /\ pc = "encoded"
    /\ user = "u1"
    /\ Len(tools) = 2
    /\ stop # << >>
    /\ Given("max_tokens") /\ model_parameters["max_tokens"] = 5
    /\ Given("max_completion_tokens")
    /\ GivenNonEmpty("reasoning_effort")
    /\ Given("verbosity") /\ model_parameters["verbosity"] = ""
    /\ request.payload["max_output_tokens"] = 5
    /\ request.payload["tool_choice"] = "auto"
    /\ Sent("reasoning") /\ Sent("stop") /\ ~Sent("text") /\ ~Sent("user")

\* ------------------------------------------------------- pending tool calls
IsFunctionCallItem(e) == e.item.present /\ e.item.type = "function_call"

\* C19: every output_item.done event for a function-call item removes the
\* item's call id from the pending table (and nothing else) and clears the
\* active marker when that id was the active one, whether or not a tool call
\* is finalized; an item without a function name emits no chunk, adds nothing
\* to the finalized list and leaves the index unchanged, and is removed from
\* the pending table all the same.
C19_DoneItemLeavesPending ==
    [][\A e \in OutputItemDoneEvents :
          (OutputItemDone(e) /\ IsFunctionCallItem(e)) =>
             /\ DOMAIN pending_tool_calls'
                   = DOMAIN pending_tool_calls \ {e.item.call_id}
             /\ \A c \in DOMAIN pending_tool_calls' :
                   pending_tool_calls'[c] = pending_tool_calls[c]
             /\ current_tool_call' =
                   IF current_tool_call = e.item.call_id THEN NoCall
                   ELSE current_tool_call
             /\ e.item.name = "" =>
                   /\ chunks' = chunks
                   /\ tool_calls' = tool_calls
                   /\ index' = index]_vars

\* c1 was pending when its arguments.done was applied, no chunk was emitted,
\* and c1 is pending no more: a done item without a name has removed it.
C19_Witness ==
    /\ pc = "streaming"
    /\ last_done["c1"].set
    /\ "c1" \notin DOMAIN pending_tool_calls
    /\ current_tool_call = NoCall
    /\ chunks = << >>
    /\ tool_calls = << >>
    /\ index = 0

\* C20: a tool call reaches the output only through an output_item.done
\* event that carries a function name: the finalized list and the tool calls
\* of the chunks change in no other step, so a call that was announced and
\* whose output_item.done never arrives is in no chunk and not in the
\* finalized list; at the end of the stream the final chunk carries no tool
\* call and its finish reason is computed from the finalized list and the
\* text alone, whatever is still pending; the generator then ends and the
\* pending table is never read again.
C20_OnlyDoneItemsReachOutput ==
    [][/\ (tool_calls' # tool_calls
           \/ ChunkToolCalls(chunks') # ChunkToolCalls(chunks))
          => \E e \in OutputItemDoneEvents : OutputItemDone(e) /\ Finalizes(e)
       /\ EndOfStream =>
             /\ tool_calls' = tool_calls
             /\ Len(chunks') = Len(chunks) + 1
             /\ chunks'[Len(chunks')].tool_calls = << >>
             /\ chunks'[Len(chunks')].finish_reason =
                   IF tool_calls # << >> /\ AllWhitespace(full_text)
                   THEN "tool_calls" ELSE "stop"
             /\ chunks'[Len(chunks')].usage =
                   BuildUsage(final_response, prompt_messages,
                              AssistantMessage(full_text, tool_calls), tools)
             /\ pc' = "done"
       /\ pc = "done" => UNCHANGED vars]_vars

\* The stream ended while c1 was announced and had buffered arguments: the
\* only chunk is the final one, and it stops the turn without a tool call.
C20_Witness ==
    /\ pc = "done"
    /\ "c1" \in DOMAIN pending_tool_calls
    /\ pending_tool_calls["c1"].name = "f"
    /\ pending_tool_calls["c1"].arguments # << >>
    /\ tool_calls = << >>
    /\ Len(chunks) = 1
    /\ chunks[1].tool_calls = << >>
    /\ chunks[1].finish_reason = "stop"

\* --------------------------------------------------------- events in detail
Announces(e) ==
    e.item.present /\ e.item.type = "function_call" /\ e.item.call_id # ""

\* C21: an output_item.added event for a function-call item with a non-empty
\* call id sets the pending entry of that id to (the item's name, empty
\* buffer) and makes the id the active call, whether or not the id was
\* pending already (a repeated announcement resets the buffer) and leaving
\* every other entry as it was; with an empty call id, or for an item of any
\* other kind, the event changes no assembler state; it never emits a chunk.
C21_AnnouncementSetsPending ==
    [][\A e \in OutputItemAddedEvents :
          OutputItemAdded(e) =>
             /\ chunks' = chunks
             /\ UNCHANGED << full_text, index, tool_calls, final_response, pc >>
             /\ IF Announces(e)
                THEN /\ DOMAIN pending_tool_calls'
                           = DOMAIN pending_tool_calls \cup {e.item.call_id}
                     /\ pending_tool_calls'[e.item.call_id]
                           = [name |-> e.item.name, arguments |-> << >>]
                     /\ \A c \in DOMAIN pending_tool_calls \ {e.item.call_id} :
                           pending_tool_calls'[c] = pending_tool_calls[c]
                     /\ current_tool_call' = e.item.call_id
                ELSE UNCHANGED << pending_tool_calls, current_tool_call >>]_vars

\* Two announced calls after four events: c2 holds a buffer, c1 is the
\* active call with the name of its item and an empty buffer; no chunk
\* was emitted and the index has not moved.
C21_Witness ==
    /\ pc = "streaming"
    /\ n_events = 4
    /\ DOMAIN pending_tool_calls = {"c1", "c2"}
    /\ pending_tool_calls["c1"] = [name |-> "f", arguments |-> << >>]
    /\ pending_tool_calls["c2"].arguments = << "x" >>
    /\ current_tool_call = "c1"
    /\ chunks = << >>
    /\ index = 0

\* C22: events that carry no output leave the rest of the state untouched: a
\* 'completed' event changes only the captured terminal response, which
\* becomes the one it carries (the last one seen wins), and emits no chunk;
\* an event of an unrecognized kind, and an output_item.done event for an
\* item that is not a function call, change no assembler state (text, index,
\* finalized list, pending table, active marker, captured response), emit no
\* chunk and leave the stream running.
C22_SilentEventsFrame ==
    [][/\ \A e \in CompletedEvents :
             ResponseCompleted(e) =>
                /\ final_response' = e.response
                /\ UNCHANGED << full_text, index, tool_calls, pending_tool_calls,
                                current_tool_call, chunks, pc, error >>
       /\ \A e \in OtherEvents :
             OtherEvent(e) => UNCHANGED << assembler, pc, error >>
       /\ \A e \in OutputItemDoneEvents :
             (OutputItemDone(e) /\ ~IsFunctionCallItem(e)) =>
                UNCHANGED << assembler, pc, error >>]_vars

\* A terminal response was captured while a call is pending and a text chunk
\* was emitted before: nothing but the captured response differs from the
\* state the delta and the announcement left.
C22_Witness ==
    /\ pc = "streaming"
    /\ n_events = 3
    /\ final_response.present
    /\ final_response.usage.present
    /\ Len(chunks) = 1
    /\ index = 1
    /\ full_text = << "a" >>
    /\ DOMAIN pending_tool_calls = {"c1"}
    /\ current_tool_call = "c1"

\* ------------------------------------------------------------ active marker
\* C24: in every reachable assembler state the active call id is none or a
\* key of the pending table: the marker never names a call that was
\* finalized, removed or never announced.
C24_ActiveCallIsPending ==
    current_tool_call = NoCall \/ current_tool_call \in DOMAIN pending_tool_calls

\* c2 was finalized from its buffer while it was the active call; c1 is
\* still pending and the marker is none.
C24_Witness ==
    /\ pc = "streaming"
    /\ DOMAIN pending_tool_calls = {"c1"}
    /\ current_tool_call = NoCall
    /\ Len(tool_calls) = 1
    /\ tool_calls[1].id = "c2"
    /\ tool_calls[1].arguments = << "x" >>

C24_WitnessActive ==
    /\ pc = "streaming"
    /\ DOMAIN pending_tool_calls = {"c1", "c2"}
    /\ current_tool_call = "c2"
    /\ Len(tool_calls) = 1

\* C25: the active marker only ever names the most recently announced call
\* and never goes back to an earlier one: it changes only to the id an
\* output_item.added event announces, or to none; when the active call's
\* output_item.done arrives the marker is none even though another call is
\* still pending; and while the marker is none every arguments delta or done
\* event that carries no id of its own is dropped, so that the buffers of the
\* pending calls stay as they are.
C25_MarkerNeverReverts ==
    [][/\ current_tool_call' # current_tool_call =>
             \/ current_tool_call' = NoCall
             \/ \E e \in OutputItemAddedEvents :
                   /\ OutputItemAdded(e)
                   /\ Announces(e)
                   /\ current_tool_call' = e.item.call_id
       /\ \A e \in OutputItemDoneEvents :
             (/\ OutputItemDone(e)
              /\ IsFunctionCallItem(e)
              /\ e.item.call_id = current_tool_call)
             => current_tool_call' = NoCall
       /\ \A e \in ArgumentsDeltaEvents :
             (FunctionCallArgumentsDelta(e)
              /\ e.item_id = "" /\ current_tool_call = NoCall)
             => UNCHANGED << assembler, pc >>
       /\ \A e \in ArgumentsDoneEvents :
             (FunctionCallArgumentsDone(e)
              /\ e.item_id = "" /\ current_tool_call = NoCall)
             => UNCHANGED << assembler, pc >>]_vars

\* c1 then c2 were announced and c2 was finalized; a fourth event has been
\* delivered since c1's announcement and c1 still has its empty buffer, the
\* marker is none.
C25_Witness ==
    /\ pc = "streaming"
    /\ n_events = 4
    /\ DOMAIN pending_tool_calls = {"c1"}
    /\ pending_tool_calls["c1"].arguments = << >>
    /\ current_tool_call = NoCall
    /\ Len(tool_calls) = 1
    /\ tool_calls[1].id = "c2"
    /\ Len(chunks) = 1

\* ------------------------------------------------- local completion count
\* No remote completion count that is present and nonzero.
NoRemoteCompletion(u) ==
    ~u.present \/ (~NonZero(u.output_tokens) /\ ~NonZero(u.completion_tokens))

TextTokens(text) == IF text = << >> THEN 0 ELSE NumTokens(text)

\* C26: when the completion count is estimated locally it is a function of
\* the assistant text alone: the names and arguments of the finalized tool
\* calls add nothing, so a turn that consists of tool calls only (empty
\* text) and has no nonzero remote completion count is reported with the
\* completion count 0.
C26_LocalCompletionFromTextAlone ==
    /\ (pc = "done"
        /\ NoRemoteCompletion(IF final_response.present
                              THEN final_response.usage ELSE NoUsage))
       => LastChunk.usage.completion_tokens = TextTokens(full_text)
    /\ (pc = "returned" /\ NoRemoteCompletion(response.usage))
       => result.usage.completion_tokens = TextTokens(result.content)

C26_Witness ==
    /\ pc = "done"
    /\ Len(tool_calls) = 2
    /\ full_text = << >>
    /\ final_response.present
    /\ final_response.usage.present
    /\ final_response.usage.output_tokens = 0
    /\ LastChunk.finish_reason = "tool_calls"
    /\ LastChunk.usage.completion_tokens = 0

C26_WitnessOneShot ==
    /\ pc = "returned"
    /\ result.tool_calls # << >>
    /\ result.content = << " " >>
    /\ ~response.usage.present
    /\ result.usage.completion_tokens = 1


\* The ids of the records of the remote list, in order; a record without an
\* id attribute reads as NoCall.
RemoteIds ==
    IF listed_models.kind = "no_data" THEN << >>
    ELSE [i \in DOMAIN listed_models.items |-> listed_models.items[i].id]
FirstOccurrence(id) == CHOOSE i \in DOMAIN RemoteIds : RemoteIds[i] = id /\ \A j \in 1..(i - 1) : RemoteIds[j] # id
FlagshipTemplates == { k \in DOMAIN predefined_models : predefined_models[k].model = Flagship }

\* C23: when remote model discovery returns, the returned entities carry
\* exactly the distinct non-empty ids of the remote list, each once and in
\* order of first occurrence (records with an empty or missing id are
\* skipped), and all of them are stamped from one selected template: a
\* predefined template with the flagship id when there is one, otherwise
\* the first predefined template.
C23_OneEntityPerDistinctId ==
    pc = "listed" =>
        /\ \A i, j \in DOMAIN entities : i # j => entities[i].model # entities[j].model
        /\ { entities[i].model : i \in DOMAIN entities }
              = { RemoteIds[i] : i \in DOMAIN RemoteIds } \ { "", NoCall }
        /\ \A i, j \in DOMAIN entities :
              i < j => FirstOccurrence(entities[i].model) < FirstOccurrence(entities[j].model)
        /\ \E k \in DOMAIN predefined_models :
              /\ IF FlagshipTemplates = {} THEN k = 1 ELSE k \in FlagshipTemplates
              /\ \A i \in DOMAIN entities :
                    /\ entities[i].stamp = predefined_models[k].stamp
                    /\ entities[i].label = entities[i].model
                    /\ entities[i].fetch_from = "customizable-model"

\* A listing of four records with a repeated id and an empty id came back as
\* two entities, stamped from a flagship template that is not the first
\* predefined one.
C23_Witness ==
    /\ pc = "listed"
    /\ Len(RemoteIds) = 4
    /\ \E i, j \in DOMAIN RemoteIds : i < j /\ RemoteIds[i] = RemoteIds[j] /\ RemoteIds[i] = "m2"
    /\ \E i \in DOMAIN RemoteIds : RemoteIds[i] = ""
    /\ Len(entities) = 2
    /\ entities[1].model = "m2"
    /\ predefined_models[1].model # Flagship
    /\ FlagshipTemplates # {}

====
